---------------------------- MODULE Spec2Model ----------------------------
(***************************************************************************)
(* A model of the jubjub-prototype gadget library (src/src/lib.rs): the    *)
(* witness container, the boolean gadgets, the field-element gadget with   *)
(* its bit decomposition and range check, the window lookup, the Pedersen  *)
(* hash circuit and the MiMC circuit, all run against a constraint system  *)
(* that records every allocation and every rank-1 constraint.              *)
(*                                                                         *)
(* The scalar field is scaled down from the 255-bit BLS12-381 scalar field *)
(* to the prime field of FrChar elements, and the twisted Edwards curve    *)
(* -x^2 + y^2 = 1 + d x^2 y^2 to one over that field whose group has order *)
(* 8 * (odd prime), as JubJub's has.  The hash takes HashBits input bits   *)
(* with HashBits = 2 * NumBits + 2, as 512 = 2 * 255 + 2 in the source.    *)
(***************************************************************************)
EXTENDS Integers, Sequences, FiniteSets, TLC

VARIABLES circuit, pc, run, inp, last

vars == <<circuit, pc, run, inp, last>>

-----------------------------------------------------------------------------
(* The scalar field Fr.                                                    *)

\* Fr::char(): the field modulus (scaled down; binary 11101).
FrChar == 29

\* The width of the integer representation FrRepr (4 x u64 in the source,
\* one bit wider than the modulus there; three bits wider here).
ReprBits == 8

Fr == 0 .. (FrChar - 1)

RECURSIVE BitWidth(_)
BitWidth(n) == IF n = 0 THEN 0 ELSE 1 + BitWidth(n \div 2)

\* Fr::num_bits()
NumBits == BitWidth(FrChar)

FAdd(a, b) == (a + b) % FrChar
FSub(a, b) == (a - b + FrChar) % FrChar
FMul(a, b) == (a * b) % FrChar
FNeg(a) == (FrChar - a) % FrChar

\* Field::inverse(): None for zero.
HasInverse(a) == a % FrChar # 0
FInv(a) == CHOOSE x \in Fr : FMul(a, x) = 1

\* BitIterator::new(repr): the bits of the representation, most significant
\* first, over the whole width of the representation.
RECURSIVE Pow2(_)
Pow2(n) == IF n = 0 THEN 1 ELSE 2 * Pow2(n - 1)

BitIterator(n) == [i \in 1 .. ReprBits |-> (n \div Pow2(ReprBits - i)) % 2 = 1]

\* Vec::reverse and Vec::truncate
Reverse(s) == [i \in 1 .. Len(s) |-> s[Len(s) + 1 - i]]
Truncate(s, n) == IF Len(s) <= n THEN s ELSE SubSeq(s, 1, n)

-----------------------------------------------------------------------------
(* Assignment<T>: a witness value that is known or not.                    *)

known(v) == [known |-> TRUE, v |-> v]
unknown(T) == [known |-> FALSE, v |-> IF T = "bool" THEN FALSE ELSE 0]

\* A get that answers Ok whatever the assignment.
get_AlwaysOk(a) == [ok |-> TRUE, v |-> a.v]

\* Assignment::get: Ok(&v) for Known(v), Err(AssignmentMissing) for Unknown.
get(a) == IF a.known THEN [ok |-> TRUE, v |-> a.v]
          ELSE [ok |-> FALSE, v |-> a.v]

-----------------------------------------------------------------------------
(* The constraint system the gadgets are run against.  Variable 0 is the   *)
(* constant-one wire CS::one(); variables 1 .. n are allocated.  A linear  *)
(* combination is the sequence of its <<coefficient, variable>> terms in   *)
(* the order they were added.  ops records, in order, every allocation and *)
(* every constraint; wit[i] is the value the closure of allocation i gave. *)
(* st is "ok" while synthesis runs, "err" once a `?` has returned          *)
(* Err(AssignmentMissing), "panic" once the program has panicked; every    *)
(* gadget is skipped once st is not "ok".                                  *)

Modes == {"paramgen", "proving"}

NewCS(m) == [mode |-> m, n |-> 0, wit |-> <<>>, ops |-> <<>>, st |-> "ok"]

One == 0

LcZero == <<>>
LcAdd(lc, v) == Append(lc, <<1, v>>)
LcSub(lc, v) == Append(lc, <<FNeg(1), v>>)
LcAddC(lc, c, v) == Append(lc, <<c, v>>)
LcSubC(lc, c, v) == Append(lc, <<FNeg(c), v>>)

AllocOp == [k |-> "alloc", a |-> <<>>, b |-> <<>>, c |-> <<>>]
EnforceOp(a, b, c) == [k |-> "enforce", a |-> a, b |-> b, c |-> c]

\* A closure's outcome: Ok(v), Err(AssignmentMissing), or a panic inside it.
Ok(v) == [res |-> "ok", v |-> v]
Err == [res |-> "err", v |-> 0]
Panic == [res |-> "panic", v |-> 0]

\* ConstraintSystem::alloc(f).  Proving calls f and stores its value, and
\* returns f's error; parameter generation never calls f.
CsAlloc(cs, clo) ==
  IF cs.st # "ok" THEN cs
  ELSE IF cs.mode = "paramgen"
    THEN [cs EXCEPT !.n = @ + 1, !.wit = Append(@, unknown("fr")),
                    !.ops = Append(@, AllocOp)]
  ELSE IF clo.res = "ok"
    THEN [cs EXCEPT !.n = @ + 1, !.wit = Append(@, known(clo.v)),
                    !.ops = Append(@, AllocOp)]
  ELSE [cs EXCEPT !.st = clo.res]

\* Whether alloc ran the closure to its end, so that what the closure
\* assigned to the variables it captured is kept.
Ran(cs, clo) == cs.st = "ok" /\ cs.mode = "proving" /\ clo.res = "ok"

\* ConstraintSystem::enforce(a, b, c): records a * b = c.
CsEnforce(cs, a, b, c) ==
  IF cs.st # "ok" THEN cs
  ELSE [cs EXCEPT !.ops = Append(@, EnforceOp(a, b, c))]

Ret(cs, out) == [cs |-> cs, out |-> out]

\* `let r = v; F(r)`: the statements that follow a binding, run on its value.
Bind(v, F(_)) == F(v)

-----------------------------------------------------------------------------
(* Evaluation of constraints under an assignment a of values to the        *)
(* variables 1 .. Len(a).                                                  *)

ValOf(a, v) == IF v = One THEN 1 ELSE a[v]

RECURSIVE LcEval(_, _, _)
LcEval(lc, a, i) ==
  IF i > Len(lc) THEN 0
  ELSE FAdd(FMul(lc[i][1], ValOf(a, lc[i][2])), LcEval(lc, a, i + 1))

Holds(op, a) ==
  op.k = "enforce" =>
    FMul(LcEval(op.a, a, 1), LcEval(op.b, a, 1)) = LcEval(op.c, a, 1)

Satisfies(ops, a) == \A i \in 1 .. Len(ops) : Holds(ops[i], a)

\* The values of a fully known witness.
WitVals(cs) == [i \in 1 .. cs.n |-> cs.wit[i].v]
WitKnown(cs) == \A i \in 1 .. cs.n : cs.wit[i].known

\* Every assignment that satisfies a sequence of operations, the variables
\* of `fixed` (a function from variables to values) held at their values.
\* A constraint names only variables allocated before it, so the set is
\* built operation by operation: an allocation extends every assignment by
\* every value the new variable may take, a constraint keeps the
\* assignments that satisfy it.
RECURSIVE SolFrom(_, _, _, _)
SolFrom(ops, fixed, i, S) ==
  IF i > Len(ops) \/ S = {} THEN S
  ELSE IF ops[i].k = "alloc"
    THEN SolFrom(ops, fixed, i + 1,
           UNION { { Append(a, x) :
                       x \in IF (Len(a) + 1) \in DOMAIN fixed
                             THEN {fixed[Len(a) + 1]} ELSE Fr } : a \in S })
  ELSE SolFrom(ops, fixed, i + 1, { a \in S : Holds(ops[i], a) })

Solutions(ops, fixed) == SolFrom(ops, fixed, 1, {<<>>})

-----------------------------------------------------------------------------
(* Bit: a variable with the boolean it stands for.                         *)

Bit(var, val) == [var |-> var, val |-> val]

BoolFr(b) == IF b THEN 1 ELSE 0

\* A constant-one bit that takes a variable of its own.
Bit_one_Allocated(cs) ==
  LET cs1 == CsAlloc(cs, Ok(1))
  IN  Ret(CsEnforce(cs1, LcAdd(LcZero, cs1.n), LcAdd(LcZero, One),
                    LcAdd(LcZero, One)),
          Bit(cs1.n, known(TRUE)))

\* Bit::one: the constant-one wire, known to be true; nothing is allocated.
Bit_one(cs) == Ret(cs, Bit(One, known(TRUE)))

\* A slip of sign in the constraint of Bit::alloc: (1 + a) * a = 0
BooleanConstraint_Plus(var) ==
  EnforceOp(LcAdd(LcAdd(LcZero, One), var), LcAdd(LcZero, var), LcZero)

\* The constraint of Bit::alloc: (1 - a) * a = 0
BooleanConstraint(var) ==
  EnforceOp(LcSub(LcAdd(LcZero, One), var), LcAdd(LcZero, var), LcZero)

\* Bit::alloc
Bit_alloc(cs, value) ==
  LET clo == IF get(value).ok THEN Ok(BoolFr(get(value).v)) ELSE Err
      cs1 == CsAlloc(cs, clo)
      var == cs1.n
      e   == BooleanConstraint(var)
  IN  Ret(CsEnforce(cs1, e.a, e.b, e.c), Bit(var, value))

\* The closure `x && y` of the AND gadgets, each operand read through get()?
\* and negated when nx (ny) says so; y is read only when x is true.
AndClosure(x, nx, y, ny) ==
  IF ~get(x).ok THEN Err
  ELSE IF get(x).v # nx
    THEN IF ~get(y).ok THEN Err ELSE Ok(BoolFr(get(y).v # ny))
  ELSE Ok(0)

\* The closure `x ^ y` of the XOR gadget: both operands are read.
XorClosure(x, y) ==
  IF ~get(x).ok \/ ~get(y).ok THEN Err ELSE Ok(BoolFr(get(x).v # get(y).v))

\* c_val after the allocation: set by the closure when it ran to its end.
ClosureVal(cs, clo) == IF Ran(cs, clo) THEN known(clo.v = 1) ELSE unknown("bool")

\* Bit::and: allocates c with a * b = c
Bit_and(cs, x, y) ==
  LET clo == AndClosure(x.val, FALSE, y.val, FALSE)
      cs1 == CsAlloc(cs, clo)
      c   == cs1.n
  IN  Ret(CsEnforce(cs1, LcAdd(LcZero, x.var), LcAdd(LcZero, y.var),
                    LcAdd(LcZero, c)),
          Bit(c, ClosureVal(cs, clo)))

-----------------------------------------------------------------------------
(* FunBit: a constant, a variable, or the negation of a variable.          *)

Constant(b) == [tag |-> "Constant", b |-> b, var |-> One, val |-> unknown("bool")]
Is(var, val) == [tag |-> "Is", b |-> FALSE, var |-> var, val |-> val]
Not(var, val) == [tag |-> "Not", b |-> FALSE, var |-> var, val |-> val]

\* FunBit::from_bit
from_bit(b) == Is(b.var, b.val)

\* An assertion that constrains the wire itself whatever the sign.
FunBit_assert_is_false_SameWire(cs, f) ==
  IF cs.st # "ok" THEN cs
  ELSE IF f.tag = "Constant"
    THEN IF f.b THEN [cs EXCEPT !.st = "panic"] ELSE cs
  ELSE CsEnforce(cs, LcAdd(LcZero, f.var), LcAdd(LcZero, One), LcZero)

\* FunBit::assert_is_false
FunBit_assert_is_false(cs, f) ==
  IF cs.st # "ok" THEN cs
  ELSE IF f.tag = "Constant"
    THEN IF f.b THEN [cs EXCEPT !.st = "panic"] ELSE cs
  ELSE IF f.tag = "Is"
    THEN CsEnforce(cs, LcAdd(LcZero, f.var), LcAdd(LcZero, One), LcZero)
  ELSE CsEnforce(cs, LcSub(LcAdd(LcZero, One), f.var), LcAdd(LcZero, One),
                 LcZero)

\* FunBit::not
FunBit_not(f) ==
  IF f.tag = "Constant" THEN Constant(~f.b)
  ELSE IF f.tag = "Is" THEN Not(f.var, f.val)
  ELSE Is(f.var, f.val)

\* FunBit::xor on two variables of the same sign: 2a * b = a + b - c
XorSame(cs, x, y) ==
  LET clo == XorClosure(x.val, y.val)
      cs1 == CsAlloc(cs, clo)
      c   == cs1.n
  IN  Ret(CsEnforce(cs1, LcAdd(LcAdd(LcZero, x.var), x.var),
                    LcAdd(LcZero, y.var),
                    LcSub(LcAdd(LcAdd(LcZero, x.var), y.var), c)),
          Is(c, ClosureVal(cs, clo)))

\* An xor that folds a constant operand away whatever its value.
FunBit_xor_FoldPlain(cs, x, y) ==
  IF x.tag = "Constant" THEN Ret(cs, y)
  ELSE IF y.tag = "Constant" THEN Ret(cs, x)
  ELSE IF x.tag = y.tag THEN XorSame(cs, x, y)
  ELSE Bind(XorSame(cs, Is(x.var, x.val), Is(y.var, y.val)),
            LAMBDA r : Ret(r.cs, FunBit_not(r.out)))

\* FunBit::xor
FunBit_xor(cs, x, y) ==
  IF x.tag = "Constant" /\ ~x.b THEN Ret(cs, y)
  ELSE IF y.tag = "Constant" /\ ~y.b THEN Ret(cs, x)
  ELSE IF x.tag = "Constant" /\ x.b THEN Ret(cs, FunBit_not(y))
  ELSE IF y.tag = "Constant" /\ y.b THEN Ret(cs, FunBit_not(x))
  ELSE IF x.tag = y.tag THEN XorSame(cs, x, y)
  ELSE Bind(XorSame(cs, Is(x.var, x.val), Is(y.var, y.val)),
            LAMBDA r : Ret(r.cs, FunBit_not(r.out)))

\* A factor that forgets the negation of its operand.
AndFactor_Plain(f) == LcAdd(LcZero, f.var)

\* FunBit::and on two variables: one allocation and one constraint, its
\* factors (1 - v) for a negated operand.
AndFactor(f) ==
  IF f.tag = "Is" THEN LcAdd(LcZero, f.var)
  ELSE LcSub(LcAdd(LcZero, One), f.var)

AndVars(cs, x, y) ==
  LET clo == AndClosure(x.val, x.tag = "Not", y.val, y.tag = "Not")
      cs1 == CsAlloc(cs, clo)
      c   == cs1.n
  IN  Ret(CsEnforce(cs1, AndFactor(x), AndFactor(y), LcAdd(LcZero, c)),
          Is(c, ClosureVal(cs, clo)))

\* FunBit::and
FunBit_and(cs, x, y) ==
  IF (x.tag = "Constant" /\ ~x.b) \/ (y.tag = "Constant" /\ ~y.b)
    THEN Ret(cs, Constant(FALSE))
  ELSE IF x.tag = "Constant" THEN Ret(cs, y)
  ELSE IF y.tag = "Constant" THEN Ret(cs, x)
  ELSE IF x.tag = "Not" /\ y.tag = "Is" THEN AndVars(cs, y, x)
  ELSE AndVars(cs, x, y)

\* An or that forgets to negate the result of the and.
FunBit_or_NoNot(cs, x, y) == FunBit_and(cs, FunBit_not(x), FunBit_not(y))

\* FunBit::or
FunBit_or(cs, x, y) ==
  Bind(FunBit_and(cs, FunBit_not(x), FunBit_not(y)),
       LAMBDA r : Ret(r.cs, FunBit_not(r.out)))

\* The boolean a FunBit stands for when its witness is known.
Logical(f) ==
  IF f.tag = "Constant" THEN f.b
  ELSE IF f.tag = "Is" THEN f.val.v
  ELSE ~f.val.v

LogicalKnown(f) == f.tag = "Constant" \/ f.val.known

-----------------------------------------------------------------------------
(* The range check and the bit decomposition.                              *)

\* The constant bits of the modulus as assert_less_than_r lays them out.
r_bits == Truncate(Reverse([i \in 1 .. ReprBits |->
                              Constant(BitIterator(FrChar)[i])]), NumBits)

\* A turn of the loop that carries the borrow where the two bits differ.
BorrowStep_Xor(cs, a, bit, carry) ==
  Bind(FunBit_xor(cs, a, from_bit(bit)), LAMBDA t1 :
  Bind(FunBit_and(t1.cs, FunBit_not(a), from_bit(bit)), LAMBDA t2 :
  Bind(FunBit_and(t2.cs, t1.out, carry), LAMBDA t3 :
  FunBit_or(t3.cs, t2.out, t3.out))))

\* One turn of the loop of assert_less_than_r.
BorrowStep(cs, a, bit, carry) ==
  Bind(FunBit_xor(cs, a, from_bit(bit)), LAMBDA t1 :
  Bind(FunBit_and(t1.cs, FunBit_not(a), from_bit(bit)), LAMBDA t2 :
  Bind(FunBit_and(t2.cs, FunBit_not(t1.out), carry), LAMBDA t3 :
  FunBit_or(t3.cs, t2.out, t3.out))))

RECURSIVE BorrowLoop(_, _, _, _, _)
BorrowLoop(cs, rb, bits, i, carry) ==
  IF i > Len(rb) \/ i > Len(bits) THEN Ret(cs, carry)
  ELSE Bind(BorrowStep(cs, rb[i], bits[i], carry), LAMBDA t :
            BorrowLoop(t.cs, rb, bits, i + 1, t.out))

\* assert_less_than_r
assert_less_than_r(cs, bits) ==
  Bind(BorrowLoop(cs, r_bits, bits, 1, Constant(FALSE)), LAMBDA r :
       FunBit_assert_is_false(r.cs, r.out))

Num(value, var) == [value |-> value, var |-> var]

RECURSIVE AllocBits(_, _, _, _)
AllocBits(cs, vals, i, acc) ==
  IF i > Len(vals) THEN Ret(cs, acc)
  ELSE Bind(Bit_alloc(cs, vals[i]), LAMBDA r :
            AllocBits(r.cs, vals, i + 1, Append(acc, r.out)))

\* assignment_into_bits without the truncation of the known bits.
assignment_into_bits_NoTruncate(cs, num) ==
  IF get(num).ok
    THEN LET bs == BitIterator(get(num).v)
         IN  AllocBits(cs, Reverse([i \in 1 .. Len(bs) |-> known(bs[i])]),
                       1, <<>>)
  ELSE AllocBits(cs, [i \in 1 .. NumBits |-> unknown("bool")], 1, <<>>)

\* assignment_into_bits without the reversal: the bits most significant first.
assignment_into_bits_NoReverse(cs, num) ==
  IF get(num).ok
    THEN LET bs == BitIterator(get(num).v)
         IN  AllocBits(cs, Truncate([i \in 1 .. Len(bs) |-> known(bs[i])],
                                    NumBits), 1, <<>>)
  ELSE AllocBits(cs, [i \in 1 .. NumBits |-> unknown("bool")], 1, <<>>)

\* assignment_into_bits
assignment_into_bits(cs, num) ==
  IF get(num).ok
    THEN LET bs == BitIterator(get(num).v)
             res_assignment ==
               Truncate(Reverse([i \in 1 .. Len(bs) |-> known(bs[i])]), NumBits)
         IN  AllocBits(cs, res_assignment, 1, <<>>)
  ELSE AllocBits(cs, [i \in 1 .. NumBits |-> unknown("bool")], 1, <<>>)

\* The weighted sum of Num::unpack: the bits against 1, 2, 4, ...
RECURSIVE WeightedSum(_, _, _, _)
WeightedSum(bits, i, cur, lc) ==
  IF i > Len(bits) THEN lc
  ELSE WeightedSum(bits, i + 1, FMul(cur, 2), LcAddC(lc, cur, bits[i].var))

\* Num::unpack
Num_unpack(cs, num) ==
  Bind(assignment_into_bits(cs, num.value), LAMBDA b :
    Ret(assert_less_than_r(
          CsEnforce(b.cs, LcZero, LcZero,
                    LcSub(WeightedSum(b.out, 1, 1, LcZero), num.var)),
          b.out),
        b.out))

\* Num::mul
Num_mul(cs, x, y) ==
  LET clo == IF get(x.value).ok /\ get(y.value).ok
               THEN Ok(FMul(get(x.value).v, get(y.value).v)) ELSE Err
      cs1 == CsAlloc(cs, clo)
      v   == cs1.n
  IN  Ret(CsEnforce(cs1, LcAdd(LcZero, x.var), LcAdd(LcZero, y.var),
                    LcAdd(LcZero, v)),
          Num(IF Ran(cs, clo) THEN known(clo.v) ELSE unknown("fr"), v))

-----------------------------------------------------------------------------
(* The boolean gadgets as a state machine.  Both modes of use are run side *)
(* by side on the same calls: run["proving"] with every witness known and  *)
(* run["paramgen"] with every witness unknown.  pool holds the FunBits     *)
(* made so far; a gate takes two of them, each as it is or negated.        *)

\* The most FunBits the pool holds.
MaxPool == 3

\* The witness a circuit input has in mode m.
Val(m, v, T) == IF m = "proving" THEN known(v) ELSE unknown(T)

Operand(pool, i, neg) == IF neg THEN FunBit_not(pool[i]) ELSE pool[i]

AsBit(f) == Bit(f.var, f.val)

GateOps == {"and", "or", "xor"}

ApplyGate(op, cs, x, y) ==
  IF op = "and" THEN FunBit_and(cs, x, y)
  ELSE IF op = "or" THEN FunBit_or(cs, x, y)
  ELSE IF op = "xor" THEN FunBit_xor(cs, x, y)
  ELSE Bind(Bit_and(cs, AsBit(x), AsBit(y)),
            LAMBDA r : Ret(r.cs, from_bit(r.out)))

NoOp == [op |-> "none", i |-> 0, nx |-> FALSE, j |-> 0, ny |-> FALSE]

Pushed(r, res) == [cs |-> res.cs, pool |-> Append(r.pool, res.out)]

PoolRoom == Len(run["proving"].pool) < MaxPool

InitGates ==
  /\ circuit = "gates"
  /\ pc = "gates"
  /\ run = [m \in Modes |-> [cs |-> NewCS(m), pool |-> <<>>]]
  /\ inp = <<>>
  /\ last = NoOp

\* let b = Bit::alloc(cs, value)?; FunBit::from_bit(b)
GateAlloc ==
  /\ circuit = "gates" /\ PoolRoom
  /\ \E v \in BOOLEAN :
       /\ run' = [m \in Modes |->
                    Bind(Bit_alloc(run[m].cs, Val(m, v, "bool")), LAMBDA r :
                         Pushed(run[m], Ret(r.cs, from_bit(r.out))))]
       /\ inp' = Append(inp, v)
  /\ last' = [NoOp EXCEPT !.op = "alloc"]
  /\ UNCHANGED <<circuit, pc>>

\* FunBit::Constant(b)
GateConstant ==
  /\ circuit = "gates" /\ PoolRoom
  /\ \E v \in BOOLEAN :
       run' = [m \in Modes |-> Pushed(run[m], Ret(run[m].cs, Constant(v)))]
  /\ last' = [NoOp EXCEPT !.op = "constant"]
  /\ UNCHANGED <<circuit, pc, inp>>

\* FunBit::from_bit(Bit::one(cs))
GateOne ==
  /\ circuit = "gates" /\ PoolRoom
  /\ run' = [m \in Modes |->
               Bind(Bit_one(run[m].cs), LAMBDA r :
                    Pushed(run[m], Ret(r.cs, from_bit(r.out))))]
  /\ last' = [NoOp EXCEPT !.op = "one"]
  /\ UNCHANGED <<circuit, pc, inp>>

\* x.and(&y, cs)?, x.or(&y, cs)?, x.xor(&y, cs)?, with x and y taken from the
\* pool as they are or through not().
GateApply ==
  /\ circuit = "gates" /\ PoolRoom
  /\ \E op \in GateOps, i, j \in 1 .. Len(run["proving"].pool),
        nx, ny \in BOOLEAN :
       /\ run' = [m \in Modes |->
                    Pushed(run[m],
                           ApplyGate(op, run[m].cs,
                                     Operand(run[m].pool, i, nx),
                                     Operand(run[m].pool, j, ny)))]
       /\ last' = [op |-> op, i |-> i, nx |-> nx, j |-> j, ny |-> ny]
  /\ UNCHANGED <<circuit, pc, inp>>

\* Bit::and, on two bits that are variables.
GateBitAnd ==
  /\ circuit = "gates" /\ PoolRoom
  /\ \E i, j \in 1 .. Len(run["proving"].pool) :
       /\ run["proving"].pool[i].tag = "Is"
       /\ run["proving"].pool[j].tag = "Is"
       /\ run' = [m \in Modes |->
                    Pushed(run[m],
                           ApplyGate("bitand", run[m].cs,
                                     run[m].pool[i], run[m].pool[j]))]
       /\ last' = [op |-> "bitand", i |-> i, nx |-> FALSE, j |-> j,
                   ny |-> FALSE]
  /\ UNCHANGED <<circuit, pc, inp>>

NextGates == GateAlloc \/ GateConstant \/ GateOne \/ GateApply \/ GateBitAnd

SpecGates == InitGates /\ [][NextGates]_vars

\* The operands and the result of the last gate, in mode m.
LastX(m) == Operand(SubSeq(run[m].pool, 1, Len(run[m].pool) - 1), last.i, last.nx)
LastY(m) == Operand(SubSeq(run[m].pool, 1, Len(run[m].pool) - 1), last.j, last.ny)
LastOut(m) == run[m].pool[Len(run[m].pool)]

\* The boolean a FunBit stands for under an assignment of the variables.
LogicalAt(a, f) ==
  IF f.tag = "Constant" THEN f.b
  ELSE IF f.tag = "Is" THEN ValOf(a, f.var) = 1
  ELSE ValOf(a, f.var) = 0

BoolOp(op, a, b) ==
  IF op = "or" THEN a \/ b
  ELSE IF op = "xor" THEN a # b
  ELSE a /\ b

\* The negation of a FunBit, written out case by case.
Negated(f) ==
  IF f.tag = "Constant" THEN Constant(~f.b)
  ELSE [f EXCEPT !.tag = IF f.tag = "Is" THEN "Not" ELSE "Is"]

IsConstant(f, b) == f.tag = "Constant" /\ f.b = b

\* What a gate on x and y folds to when x or y is a constant.
Folded(op, x, y) ==
  IF op = "and"
    THEN IF IsConstant(x, FALSE) \/ IsConstant(y, FALSE) THEN Constant(FALSE)
         ELSE IF IsConstant(x, TRUE) THEN y ELSE x
  ELSE IF op = "or"
    THEN IF IsConstant(x, TRUE) \/ IsConstant(y, TRUE) THEN Constant(TRUE)
         ELSE IF IsConstant(x, FALSE) THEN y ELSE x
  ELSE IF IsConstant(x, FALSE) THEN y
  ELSE IF IsConstant(y, FALSE) THEN x
  ELSE IF IsConstant(x, TRUE) THEN Negated(y)
  ELSE Negated(x)

\* A step that applies and, or or xor, in mode m: with a constant operand
\* the constraint system is left as it was and the result is the folded
\* operand; with two variables, of the same or of mixed sign, the system
\* gains one variable and one constraint and the result is on that variable.
GateStepMinimal(m) ==
  LET x   == Operand(run[m].pool, last'.i, last'.nx)
      y   == Operand(run[m].pool, last'.j, last'.ny)
      cs  == run[m].cs
      cs2 == run'[m].cs
      out == run'[m].pool[Len(run'[m].pool)]
      k   == Len(cs.ops)
  IN  /\ Negated(Negated(x)) = x /\ FunBit_not(FunBit_not(x)) = x
      /\ FunBit_not(x) = Negated(x)
      /\ IF x.tag = "Constant" \/ y.tag = "Constant"
           THEN cs2 = cs /\ out = Folded(last'.op, x, y)
         ELSE /\ cs2.n = cs.n + 1
              /\ cs2.st = "ok"
              /\ Len(cs2.ops) = k + 2
              /\ SubSeq(cs2.ops, 1, k) = cs.ops
              /\ cs2.ops[k + 1] = AllocOp
              /\ cs2.ops[k + 2].k = "enforce"
              /\ out.var = cs2.n

\* C18: not allocates nothing, emits nothing and undoes itself; and, or and
\* xor with a constant operand allocate nothing, emit nothing and return the
\* folded operand; on two non-constant operands they allocate exactly one
\* variable and emit exactly one constraint.  In both modes.
C18_MinimalConstraints ==
  [][last'.op \in GateOps => \A m \in Modes : GateStepMinimal(m)]_vars

\* An xor has been applied to two variables of mixed sign, its result the
\* negation of a new variable, in a pool that holds a constant too.
C18_Witness ==
  /\ circuit = "gates" /\ last.op = "xor" /\ last.nx # last.ny
  /\ run["proving"].pool[last.i].tag = "Is"
  /\ run["proving"].pool[last.j].tag = "Is"
  /\ run["proving"].pool[Len(run["proving"].pool)].tag = "Not"
  /\ \E i \in 1 .. Len(run["proving"].pool) :
       run["proving"].pool[i].tag = "Constant"

\* f.assert_is_false(cs), f taken from the pool as it is or through not().
GateAssertFalse ==
  /\ circuit = "gates" /\ pc = "gates"
  /\ \E i \in 1 .. Len(run["proving"].pool), neg \in BOOLEAN :
       /\ run' = [m \in Modes |->
                    [run[m] EXCEPT !.cs =
                       FunBit_assert_is_false(@, Operand(run[m].pool, i,
                                                         neg))]]
       /\ last' = [NoOp EXCEPT !.op = "assert", !.i = i, !.nx = neg]
  /\ pc' = "asserted"
  /\ UNCHANGED <<circuit, inp>>

NextAssert == (pc = "gates" /\ NextGates) \/ GateAssertFalse

SpecAssert == InitGates /\ [][NextAssert]_vars

\* The step asserts f false in mode m: nothing happens for Constant(false);
\* the program halts, the system as it was, for Constant(true); for Is(v)
\* and Not(v) the system gains one constraint and no variable, and every
\* assignment that satisfies it gives f the logical value false.
AssertStep(m) ==
  LET f   == Operand(run[m].pool, last'.i, last'.nx)
      cs  == run[m].cs
      cs2 == run'[m].cs
      k   == Len(cs.ops)
  IN  IF IsConstant(f, FALSE) THEN cs2 = cs
      ELSE IF IsConstant(f, TRUE)
        THEN cs2 = [cs EXCEPT !.st = "panic"]
      ELSE /\ cs2.st = "ok"
           /\ cs2.n = cs.n
           /\ Len(cs2.ops) = k + 1
           /\ SubSeq(cs2.ops, 1, k) = cs.ops
           /\ cs2.ops[k + 1].k = "enforce"
           /\ \A a \in Solutions(cs2.ops, <<>>) :
                /\ ~LogicalAt(a, f)
                /\ ValOf(a, f.var) = IF f.tag = "Is" THEN 0 ELSE 1

\* C19: assert_is_false emits nothing for Constant(false), halts the
\* program for Constant(true), and for Is(v) or Not(v) emits exactly one
\* constraint after which every satisfying assignment gives the FunBit the
\* logical value false (v = 0 for Is(v), v = 1 for Not(v)).  In both modes.
C19_AssertIsFalse ==
  [][last'.op = "assert" => \A m \in Modes : AssertStep(m)]_vars

\* The negation of a variable has been asserted false, and the system still
\* has a satisfying assignment, in which the variable is 1.
C19_Witness ==
  /\ circuit = "gates" /\ pc = "asserted" /\ last.nx
  /\ run["proving"].pool[last.i].tag = "Is"
  /\ \E a \in Solutions(run["paramgen"].cs.ops, <<>>) :
       ValOf(a, run["paramgen"].pool[last.i].var) = 1

\* C9: in every assignment that satisfies all the constraints emitted, every
\* variable made by the boolean gadgets (Bit::alloc, Bit::and, FunBit::and,
\* FunBit::or, FunBit::xor) has the value 0 or 1, and so has the wire of
\* Bit::one.
C9_BooleanSoundness ==
  circuit = "gates" =>
    \A m \in Modes :
      \A a \in Solutions(run[m].cs.ops, <<>>) :
        /\ Len(a) = run[m].cs.n
        /\ \A i \in 1 .. Len(a) : a[i] \in {0, 1}
        /\ \A k \in 1 .. Len(run[m].pool) :
             run[m].pool[k].tag # "Constant" =>
               ValOf(a, run[m].pool[k].var) \in {0, 1}

\* A gate on two variables has allocated its output, and the assignments
\* satisfying the system are as many as the values of the free input bits.
C9_Witness ==
  /\ circuit = "gates"
  /\ last.op \in GateOps \cup {"bitand"}
  /\ run["paramgen"].cs.n = 3
  /\ Cardinality(Solutions(run["paramgen"].cs.ops, <<>>)) = 4

\* C10: with known operands of every variant, the FunBit returned by and, or,
\* xor stands for a AND b, a OR b, a XOR b of what the operands stand for,
\* both by its own value and by the witness of its variable, and the witness
\* satisfies every constraint emitted; Bit::and gives the witness a AND b.
C10_GateCorrect ==
  (circuit = "gates" /\ last.op \in GateOps \cup {"bitand"}) =>
    LET cs  == run["proving"].cs
        x   == LastX("proving")
        y   == LastY("proving")
        out == LastOut("proving")
        exp == BoolOp(last.op, Logical(x), Logical(y))
    IN  /\ cs.st = "ok"
        /\ WitKnown(cs)
        /\ LogicalKnown(out)
        /\ Logical(out) = exp
        /\ LogicalAt(WitVals(cs), out) = exp
        /\ Satisfies(cs.ops, WitVals(cs))

\* A gate has been applied to a variable and a negated variable, and gave true.
C10_Witness ==
  /\ circuit = "gates"
  /\ last.op \in GateOps
  /\ LastX("proving").tag = "Is"
  /\ LastY("proving").tag = "Not"
  /\ LastOut("proving").tag # "Constant"
  /\ Logical(LastOut("proving"))

-----------------------------------------------------------------------------
(* The bit decomposition and the range check as a state machine.  Circuit  *)
(* "unpack" allocates a field element and unpacks it; circuit "range"      *)
(* allocates NumBits bits of any values and runs assert_less_than_r on     *)
(* them.                                                                   *)

\* A Num made from a value: cs.alloc(|| Ok(*value.get()?)).
AllocNum(cs, value) ==
  LET clo == IF get(value).ok THEN Ok(get(value).v) ELSE Err
      cs1 == CsAlloc(cs, clo)
  IN  Ret(cs1, Num(value, cs1.n))

NoNum == Num(unknown("fr"), One)

InitUnpack ==
  /\ circuit \in {"unpack", "range"}
  /\ pc = "start"
  /\ run = [m \in Modes |-> [cs |-> NewCS(m), bits |-> <<>>, num |-> NoNum]]
  /\ inp = <<>>
  /\ last = NoOp

UnpackAllocNum ==
  /\ circuit = "unpack" /\ pc = "start"
  /\ \E v \in Fr :
       /\ run' = [m \in Modes |->
                    Bind(AllocNum(run[m].cs, Val(m, v, "fr")), LAMBDA r :
                         [run[m] EXCEPT !.cs = r.cs, !.num = r.out])]
       /\ inp' = <<v>>
  /\ pc' = "num"
  /\ UNCHANGED <<circuit, last>>

\* let bits = num.unpack(cs)?
UnpackNum ==
  /\ circuit = "unpack" /\ pc = "num"
  /\ run' = [m \in Modes |->
               Bind(Num_unpack(run[m].cs, run[m].num), LAMBDA r :
                    [run[m] EXCEPT !.cs = r.cs, !.bits = r.out])]
  /\ pc' = "done"
  /\ UNCHANGED <<circuit, inp, last>>

RangeAllocBit ==
  /\ circuit = "range" /\ pc = "start" /\ Len(inp) < NumBits
  /\ \E v \in BOOLEAN :
       /\ run' = [m \in Modes |->
                    Bind(Bit_alloc(run[m].cs, Val(m, v, "bool")), LAMBDA r :
                         [run[m] EXCEPT !.cs = r.cs,
                                        !.bits = Append(@, r.out)])]
       /\ inp' = Append(inp, v)
  /\ UNCHANGED <<circuit, pc, last>>

\* assert_less_than_r(&bits, cs)?
RangeCheck ==
  /\ circuit = "range" /\ pc = "start" /\ Len(inp) = NumBits
  /\ run' = [m \in Modes |->
               [run[m] EXCEPT !.cs = assert_less_than_r(@, run[m].bits)]]
  /\ pc' = "done"
  /\ UNCHANGED <<circuit, inp, last>>

NextUnpack == UnpackAllocNum \/ UnpackNum \/ RangeAllocBit \/ RangeCheck

SpecUnpack == InitUnpack /\ [][NextUnpack]_vars

\* The integer a sequence of booleans, least significant first, stands for.
RECURSIVE BitsValue(_, _)
BitsValue(bs, i) ==
  IF i > Len(bs) THEN 0 ELSE BoolFr(bs[i]) + 2 * BitsValue(bs, i + 1)

\* The binary digits of n, least significant first, k of them.
Digits(n, k) == [i \in 1 .. k |-> (n \div Pow2(i - 1)) % 2 = 1]

\* The variables of `bits` held at the values `vals`.
FixBits(bits, vals) ==
  [v \in {bits[i].var : i \in 1 .. Len(bits)} |->
     BoolFr(vals[CHOOSE i \in 1 .. Len(bits) : bits[i].var = v])]

\* The values an assignment gives the variables of `bits`, as booleans.
BitsAt(a, bits) == [i \in 1 .. Len(bits) |-> ValOf(a, bits[i].var) = 1]

\* C1: for every vector of NumBits boolean bits whose value is at least the
\* modulus (the modulus itself included), the constraints of
\* assert_less_than_r have no satisfying assignment.
C1_RejectsAtLeastModulus ==
  (circuit = "range" /\ pc = "done" /\ BitsValue(inp, 1) >= FrChar) =>
    \A m \in Modes :
      Solutions(run[m].cs.ops, FixBits(run[m].bits, inp)) = {}

\* What the range check does reject, and accept: a vector has a satisfying
\* assignment exactly when its value is at most the modulus.
RangeCheckAcceptsUpToModulus ==
  (circuit = "range" /\ pc = "done") =>
    \A m \in Modes :
      (Solutions(run[m].cs.ops, FixBits(run[m].bits, inp)) # {})
        <=> (BitsValue(inp, 1) <= FrChar)

\* The borrow after the positions order[k], order[k+1], ... of the modulus
\* and of the input bits, from `borrow` before them.  With `same` the borrow
\* goes on where the two bits are equal, without it where they differ.
RECURSIVE BorrowAlong(_, _, _, _)
BorrowAlong(order, k, borrow, same) ==
  IF k > Len(order) THEN borrow
  ELSE LET mb == Digits(FrChar, NumBits)[order[k]]
           ib == inp[order[k]]
           on == IF same THEN mb = ib ELSE mb # ib
       IN  BorrowAlong(order, k + 1, (~mb /\ ib) \/ (on /\ borrow), same)

LsbFirst == [k \in 1 .. NumBits |-> k]
MsbFirst == [k \in 1 .. NumBits |-> NumBits + 1 - k]

\* The value the witness gives the wire the range check asserts false: the
\* last constraint is wire * 1 = 0.
AssertedBorrow ==
  LET cs == run["proving"].cs
  IN  LcEval(cs.ops[Len(cs.ops)].a, WitVals(cs), 1)

AssertsLastWireFalse ==
  \A m \in Modes :
    LET cs == run[m].cs
    IN  /\ cs.st = "ok"
        /\ cs.ops[Len(cs.ops)].k = "enforce"
        /\ cs.ops[Len(cs.ops)].b = LcAdd(LcZero, One)
        /\ cs.ops[Len(cs.ops)].c = LcZero

\* C17: the wire the range check asserts false carries the borrow computed
\* from borrow = false over the positions from the most significant to the
\* least significant, as
\*   borrow_out = (NOT modulus_bit AND input_bit)
\*                  OR ((modulus_bit XOR input_bit) AND borrow_in).
C17_BorrowMsbFirstXor ==
  (circuit = "range" /\ pc = "done") =>
    /\ AssertsLastWireFalse
    /\ AssertedBorrow = BoolFr(BorrowAlong(MsbFirst, 1, FALSE, FALSE))

\* C17 amended: the wire asserted false carries the borrow computed from
\* borrow = false over the positions from the least significant to the most
\* significant, as
\*   borrow_out = (NOT modulus_bit AND input_bit)
\*                  OR (NOT (modulus_bit XOR input_bit) AND borrow_in).
C17_BorrowLsbFirstXnor ==
  (circuit = "range" /\ pc = "done") =>
    /\ AssertsLastWireFalse
    /\ AssertedBorrow = BoolFr(BorrowAlong(LsbFirst, 1, FALSE, TRUE))

\* The two readings that change one thing only, for comparison.
BorrowLsbFirstXor ==
  (circuit = "range" /\ pc = "done") =>
    AssertedBorrow = BoolFr(BorrowAlong(LsbFirst, 1, FALSE, FALSE))

BorrowMsbFirstXnor ==
  (circuit = "range" /\ pc = "done") =>
    AssertedBorrow = BoolFr(BorrowAlong(MsbFirst, 1, FALSE, TRUE))

\* The range check has run on bits whose value is above the modulus, and
\* the wire it asserts false carries a borrow.
C17_Witness ==
  /\ circuit = "range" /\ pc = "done"
  /\ BitsValue(inp, 1) > FrChar
  /\ AssertedBorrow = 1

\* C2: for every field value v the constraints of Num::unpack admit exactly
\* one assignment of the output bits, the binary digits of v.
C2_UniqueDecomposition ==
  (circuit = "unpack" /\ pc = "done") =>
    \A m \in Modes :
      { BitsAt(a, run[m].bits) :
          a \in Solutions(run[m].cs.ops, run[m].num.var :> inp[1]) }
        = { Digits(inp[1], NumBits) }

\* Every value but zero has one decomposition only.
UniqueDecompositionButZero ==
  (circuit = "unpack" /\ pc = "done" /\ inp[1] # 0) =>
    \A m \in Modes :
      { BitsAt(a, run[m].bits) :
          a \in Solutions(run[m].cs.ops, run[m].num.var :> inp[1]) }
        = { Digits(inp[1], NumBits) }

\* C3: for every known v below the modulus, Num::unpack returns NumBits bits,
\* least significant first, whose values and witnesses are the binary digits
\* of v (their weighted sum is v), and the witness satisfies every constraint
\* emitted.
C3_UnpackRoundTrip ==
  (circuit = "unpack" /\ pc = "done") =>
    LET cs   == run["proving"].cs
        bits == run["proving"].bits
        a    == WitVals(cs)
    IN  /\ cs.st = "ok"
        /\ WitKnown(cs)
        /\ Len(bits) = NumBits
        /\ \A i \in 1 .. Len(bits) :
             /\ bits[i].val = known(Digits(inp[1], NumBits)[i])
             /\ a[bits[i].var] = BoolFr(bits[i].val.v)
        /\ BitsValue(BitsAt(a, bits), 1) = inp[1]
        /\ Satisfies(cs.ops, a)

\* A value with ones and zeros among its digits has been unpacked.
C3_Witness ==
  /\ circuit = "unpack" /\ pc = "done"
  /\ inp[1] = FrChar - 1
  /\ Len(run["proving"].bits) = NumBits
  /\ run["proving"].cs.n > 1 + NumBits

-----------------------------------------------------------------------------
(* The window lookup.                                                      *)

\* The window: 4 selector bits, tables of 16 entries.
WindowBits == 4
TableLen == 16

\* j & i on machine integers.
RECURSIVE BitAnd(_, _)
BitAnd(j, i) ==
  IF j = 0 \/ i = 0 THEN 0
  ELSE (j % 2) * (i % 2) + 2 * BitAnd(j \div 2, i \div 2)

\* The same loop taking in the entries that do not contain i.
SynthSpread_All(v, i, cur) ==
  [j \in DOMAIN v |-> IF j > i THEN FAdd(v[j], cur) ELSE v[j]]

\* The inner loop of synth: eval += cur for every j > i with j & i == i.
SynthSpread(v, i, cur) ==
  [j \in DOMAIN v |-> IF j > i /\ BitAnd(j, i) = i THEN FAdd(v[j], cur) ELSE v[j]]

RECURSIVE SynthLoop(_, _, _, _)
SynthLoop(constants, i, v, assignment) ==
  IF i >= Len(constants) THEN assignment
  ELSE LET cur == FAdd(FNeg(v[i]), constants[i + 1])
       IN  SynthLoop(constants, i + 1, SynthSpread(v, i, cur),
                     [assignment EXCEPT ![i] = cur])

\* synth: constants is the table (entry i of the source at i + 1 here), the
\* result the assignment, indexed from 0.  The lengths are asserted.
synth(window_size, constants, assignment) ==
  IF Len(constants) # Pow2(window_size)
       \/ DOMAIN assignment # 0 .. (Pow2(window_size) - 1)
    THEN [panic |-> TRUE, assignment |-> assignment]
  ELSE [panic |-> FALSE,
        assignment |->
          SynthLoop(constants, 0, [j \in 0 .. (Pow2(window_size) - 1) |-> 0],
                    assignment)]

\* The index the closure of coordinate_lookup reads from the bits, the last
\* bit the most significant.
RECURSIVE LookupIndex(_, _)
LookupIndex(bits, i) ==
  IF i > Len(bits) THEN 0
  ELSE BoolFr(bits[i].val.v) + 2 * LookupIndex(bits, i + 1)

AllKnown(bits) == \A i \in 1 .. Len(bits) : get(bits[i].val).ok

\* The left side with the coefficients of b and c exchanged.
LookupLhs_Swapped(k, bits, a, b, c, d) ==
  LcAddC(LcAddC(LcAddC(LcAddC(LcAddC(LcAddC(LcAddC(LcAddC(LcZero,
    k[1], One), k[3], bits[2].var), k[5], bits[3].var), k[7], a.var),
    k[9], bits[4].var), k[13], b.var), k[11], c.var), k[15], d.var)

\* The two linear combinations of coordinate_lookup.
LookupLhs(k, bits, a, b, c, d) ==
  LcAddC(LcAddC(LcAddC(LcAddC(LcAddC(LcAddC(LcAddC(LcAddC(LcZero,
    k[1], One), k[3], bits[2].var), k[5], bits[3].var), k[7], a.var),
    k[9], bits[4].var), k[11], b.var), k[13], c.var), k[15], d.var)

LookupRhs(k, r, bits, a, b, c, d) ==
  LcSubC(LcSubC(LcSubC(LcSubC(LcSubC(LcSubC(LcSubC(LcSubC(LcAdd(LcZero, r),
    k[0], One), k[2], bits[2].var), k[4], bits[3].var), k[6], a.var),
    k[8], bits[4].var), k[10], b.var), k[12], c.var), k[14], d.var)

\* coordinate_lookup
coordinate_lookup(cs, table, bits, a, b, c, d) ==
  IF cs.st # "ok" THEN Ret(cs, NoNum)
  ELSE IF Len(bits) # WindowBits \/ Len(table) # TableLen
    THEN Ret([cs EXCEPT !.st = "panic"], NoNum)
  ELSE
    LET clo == IF AllKnown(bits) THEN Ok(table[LookupIndex(bits, 1) + 1])
               ELSE Err
        cs1 == CsAlloc(cs, clo)
        r   == cs1.n
        k   == synth(WindowBits, table, [j \in 0 .. (TableLen - 1) |-> 0]).assignment
    IN  Ret(CsEnforce(cs1, LookupLhs(k, bits, a, b, c, d),
                      LcAdd(LcZero, bits[1].var),
                      LookupRhs(k, r, bits, a, b, c, d)),
            Num(IF Ran(cs, clo) THEN known(clo.v) ELSE unknown("fr"), r))

\* point_lookup
point_lookup(cs, x_table, y_table, bits) ==
  IF cs.st # "ok" THEN Ret(cs, <<NoNum, NoNum>>)
  ELSE IF Len(bits) # WindowBits \/ Len(x_table) # TableLen
            \/ Len(y_table) # TableLen
    THEN Ret([cs EXCEPT !.st = "panic"], <<NoNum, NoNum>>)
  ELSE
    Bind(Bit_and(cs, bits[2], bits[3]), LAMBDA a :
    Bind(Bit_and(a.cs, bits[4], bits[2]), LAMBDA b :
    Bind(Bit_and(b.cs, bits[4], bits[3]), LAMBDA c :
    Bind(Bit_and(c.cs, c.out, bits[2]), LAMBDA d :
    Bind(coordinate_lookup(d.cs, x_table, bits, a.out, b.out, c.out, d.out),
         LAMBDA x :
    Bind(coordinate_lookup(x.cs, y_table, bits, a.out, b.out, c.out, d.out),
         LAMBDA y :
    Ret(y.cs, <<x.out, y.out>>)))))))

-----------------------------------------------------------------------------
(* Tables of field elements, standing for tables drawn with Fr::rand.      *)

\* Sixteen field elements with no pattern to them.
Base == <<3, 14, 15, 9, 26, 5, 8, 23, 11, 6, 21, 17, 2, 27, 19, 12>>

\* The seeds tables are drawn from.
MaxSeed == 4

RandTable(s, t, len) == [i \in 1 .. len |-> FAdd(FMul(s, Base[i]), t)]

Seeds == { <<s, t>> : s \in 1 .. MaxSeed, t \in 0 .. MaxSeed }

-----------------------------------------------------------------------------
(* synth as a state machine: a table is drawn, then synth is run on it.    *)

InitSynth ==
  /\ circuit = "synth"
  /\ pc = "start"
  /\ \E w \in 1 .. WindowBits, sd \in Seeds :
       inp = [window_size |-> w,
              constants |-> RandTable(sd[1], sd[2], Pow2(w))]
  /\ run = [assignment |-> [j \in 0 .. (Pow2(inp.window_size) - 1) |-> 0],
            panic |-> FALSE]
  /\ last = NoOp

\* synth::<E>(window_size, &constants, &mut assignment)
SynthRun ==
  /\ circuit = "synth" /\ pc = "start"
  /\ run' = synth(inp.window_size, inp.constants, run.assignment)
  /\ pc' = "done"
  /\ UNCHANGED <<circuit, inp, last>>

NextSynth == SynthRun

SpecSynth == InitSynth /\ [][NextSynth]_vars

\* The sum of f over the set S of indices.
RECURSIVE FSum(_, _)
FSum(f, S) ==
  IF S = {} THEN 0
  ELSE LET j == CHOOSE j \in S : TRUE IN FAdd(f[j], FSum(f, S \ {j}))

\* C5: after synth, for every index b the sum of assignment[j] over the
\* bit-subsets j of b (j & b == j) is constants[b].
C5_SynthSubsetSums ==
  (circuit = "synth" /\ pc = "done") =>
    /\ ~run.panic
    /\ \A b \in 0 .. (Pow2(inp.window_size) - 1) :
         FSum(run.assignment,
              { j \in 0 .. (Pow2(inp.window_size) - 1) : BitAnd(j, b) = j })
           = inp.constants[b + 1]

\* synth has run on a table of 16 entries and given a coefficient that is
\* not a table entry.
C5_Witness ==
  /\ circuit = "synth" /\ pc = "done"
  /\ inp.window_size = WindowBits
  /\ run.assignment[TableLen - 1] # inp.constants[TableLen]
  /\ run.assignment[TableLen - 1] # 0

-----------------------------------------------------------------------------
(* The curve -x^2 + y^2 = 1 + d x^2 y^2, outside the constraint system.    *)

\* JubJub::new().d (scaled down: a non-square of the field, and the group
\* of the curve has order 8 * 5).
JubJubD == 27

Point(x, y) == [ok |-> TRUE, x |-> x, y |-> y]

\* What is left of a point once inverse().unwrap() or an assert! has panicked.
PanicPoint == [ok |-> FALSE, x |-> 0, y |-> 0]

\* Point::zero
Point_zero == Point(0, 1)

\* Point::is_on_curve
is_on_curve(p) ==
  LET x2 == FMul(p.x, p.x)
      y2 == FMul(p.y, p.y)
  IN  FAdd(FNeg(x2), y2) = FAdd(FMul(FMul(JubJubD, x2), y2), 1)

\* add_assign with the denominator of x used for y as well.
Point_add_assign_OneDenominator(p, q) ==
  LET y1y2 == FMul(p.y, q.y)
      x1x2 == FMul(p.x, q.x)
      d1 == FAdd(FMul(FMul(JubJubD, y1y2), x1x2), 1)
  IN  IF ~p.ok \/ ~q.ok \/ ~HasInverse(d1) THEN PanicPoint
      ELSE Point(FMul(FAdd(FMul(p.x, q.y), FMul(p.y, q.x)), FInv(d1)),
                 FMul(FAdd(y1y2, x1x2), FInv(d1)))

\* Point::add_assign
Point_add_assign(p, q) ==
  LET y1y2 == FMul(p.y, q.y)
      x1x2 == FMul(p.x, q.x)
      dx1x2y1y2 == FMul(FMul(JubJubD, y1y2), x1x2)
      d1 == FAdd(dx1x2y1y2, 1)
      d2 == FAdd(FNeg(dx1x2y1y2), 1)
      x1y2 == FMul(p.x, q.y)
      y1x2 == FMul(p.y, q.x)
  IN  IF ~p.ok \/ ~q.ok \/ ~HasInverse(d1) \/ ~HasInverse(d2) THEN PanicPoint
      ELSE Point(FMul(FAdd(x1y2, y1x2), FInv(d1)),
                 FMul(FAdd(y1y2, x1x2), FInv(d2)))

\* Point::double
Point_double(p) == Point_add_assign(p, p)

\* One turn of the loop of Point::rand with y drawn and x the root sqrt()
\* gave: the candidate is asserted to be on the curve and doubled three
\* times.
Point_rand(x, y) ==
  IF ~is_on_curve(Point(x, y)) THEN PanicPoint
  ELSE Point_double(Point_double(Point_double(Point(x, y))))

\* The (x, y) the loop of Point::rand can reach its return with: y any field
\* element, x a square root of (y^2 - 1) / (d y^2 + 1).
RandCandidates ==
  { c \in Fr \X Fr :
      LET y2 == FMul(c[2], c[2])
          dd == FAdd(FMul(y2, JubJubD), 1)
      IN  /\ HasInverse(dd)
          /\ FMul(c[1], c[1]) = FMul(FSub(y2, 1), FInv(dd)) }

RandPoints == { Point_rand(c[1], c[2]) : c \in RandCandidates }

\* The points Point::rand returns, in a fixed order.
RECURSIVE PointList(_)
PointList(S) ==
  IF S = {} THEN <<>>
  ELSE LET p == CHOOSE p \in S :
                  \A q \in S : p.x * FrChar + p.y <= q.x * FrChar + q.y
       IN  <<p>> \o PointList(S \ {p})

RandPointSeq == PointList(RandPoints)

-----------------------------------------------------------------------------
(* The Pedersen hash.                                                      *)

\* The number of input bits (512 in the source) and of generator tables.
HashBits == 2 * NumBits + 2
HashWindows == HashBits \div WindowBits

\* The k-th point an rng of seed s draws (k from 0).
DrawPoint(s, k) ==
  RandPointSeq[((Base[(k % TableLen) + 1] * s + 3 * (k \div TableLen) + k)
                  % Len(RandPointSeq)) + 1]

\* generate_constant_table: one (x_table, y_table) for each window.
generate_constant_table(s) ==
  [w \in 1 .. HashWindows |->
     << [i \in 1 .. TableLen |-> DrawPoint(s, (w - 1) * TableLen + i - 1).x],
        [i \in 1 .. TableLen |-> DrawPoint(s, (w - 1) * TableLen + i - 1).y] >>]

\* bits.chunks(4), chunk w (from 1).
Chunk(bits, w) ==
  SubSeq(bits, (w - 1) * WindowBits + 1,
         IF w * WindowBits < Len(bits) THEN w * WindowBits ELSE Len(bits))

NumChunks(bits) == (Len(bits) + WindowBits - 1) \div WindowBits

Min(a, b) == IF a < b THEN a ELSE b

RECURSIVE LookupLoop(_, _, _, _, _)
LookupLoop(cs, bits, generators, w, lookups) ==
  IF w > Min(NumChunks(bits), Len(generators)) THEN Ret(cs, lookups)
  ELSE Bind(point_lookup(cs, generators[w][1], generators[w][2],
                         Chunk(bits, w)), LAMBDA r :
            LookupLoop(r.cs, bits, generators, w + 1, Append(lookups, r.out)))

\* The closure of x3: (x1y2 + y1x2) / (1 + d tau)
X3Closure(x1y2, y1x2, tau) ==
  IF ~get(x1y2.value).ok \/ ~get(y1x2.value).ok \/ ~get(tau.value).ok THEN Err
  ELSE LET den == FAdd(FMul(get(tau.value).v, JubJubD), 1)
       IN  IF ~HasInverse(den) THEN Panic
           ELSE Ok(FMul(FAdd(get(x1y2.value).v, get(y1x2.value).v), FInv(den)))

\* The closure of y3 with the denominator of x3.
Y3Closure_Plus(x1x2, y1y2, tau) == X3Closure(x1x2, y1y2, tau)

\* The closure of y3: (x1x2 + y1y2) / (1 - d tau)
Y3Closure(x1x2, y1y2, tau) ==
  IF ~get(x1x2.value).ok \/ ~get(y1y2.value).ok \/ ~get(tau.value).ok THEN Err
  ELSE LET den == FAdd(FNeg(FMul(get(tau.value).v, JubJubD)), 1)
       IN  IF ~HasInverse(den) THEN Panic
           ELSE Ok(FMul(FAdd(get(x1x2.value).v, get(y1y2.value).v), FInv(den)))

NumOf(cs, clo, var) == Num(IF Ran(cs, clo) THEN known(clo.v) ELSE unknown("fr"), var)

\* Whether the turn i (from 0) of the accumulation loop computes x3.
ComputesX3(i, ngen) == i # ngen - 1

\* The x3 of one turn: allocated with its closure and, when the turn
\* computes it, constrained by (1 + d tau) * x3 = x1y2 + y1x2.
AllocX3(cs, cur, x1y2, y1x2, tau, clo, i, ngen) ==
  IF ComputesX3(i, ngen)
    THEN Bind(CsAlloc(cs, clo), LAMBDA xcs :
           Ret(CsEnforce(xcs,
                 LcAddC(LcAdd(LcZero, One), JubJubD, tau.var),
                 LcAdd(LcZero, xcs.n),
                 LcAdd(LcAdd(LcZero, x1y2.var), y1x2.var)),
               NumOf(cs, clo, xcs.n)))
  ELSE Ret(cs, cur[1])

\* The y3 of one turn: (1 - d tau) * y3 = x1x2 + y1y2.
AllocY3(cs, x1x2, y1y2, tau, clo) ==
  Bind(CsAlloc(cs, clo), LAMBDA ycs :
    Ret(CsEnforce(ycs,
          LcSubC(LcAdd(LcZero, One), JubJubD, tau.var),
          LcAdd(LcZero, ycs.n),
          LcAdd(LcAdd(LcZero, x1x2.var), y1y2.var)),
        NumOf(cs, clo, ycs.n)))

\* One turn of the accumulation loop of pedersen_hash: cur and next are
\* <<x, y>> pairs of Nums.
Accumulate(cs, cur, next, i, ngen) ==
  Bind(Num_mul(cs, cur[1], next[2]), LAMBDA x1y2 :
  Bind(Num_mul(x1y2.cs, cur[2], next[1]), LAMBDA y1x2 :
  Bind(Num_mul(y1x2.cs, cur[2], next[2]), LAMBDA y1y2 :
  Bind(Num_mul(y1y2.cs, cur[1], next[1]), LAMBDA x1x2 :
  Bind(Num_mul(x1x2.cs, y1y2.out, x1x2.out), LAMBDA tau :
  Bind(AllocX3(tau.cs, cur, x1y2.out, y1x2.out, tau.out,
               X3Closure(x1y2.out, y1x2.out, tau.out), i, ngen), LAMBDA x3 :
  Bind(AllocY3(x3.cs, x1x2.out, y1y2.out, tau.out,
               Y3Closure(x1x2.out, y1y2.out, tau.out)), LAMBDA y3 :
  Ret(y3.cs, <<x3.out, y3.out>>))))))))

RECURSIVE AccumulateLoop(_, _, _, _, _)
AccumulateLoop(cs, lookups, k, cur, ngen) ==
  IF k > Len(lookups) THEN Ret(cs, cur)
  ELSE Bind(Accumulate(cs, cur, lookups[k], k - 2, ngen), LAMBDA r :
            AccumulateLoop(r.cs, lookups, k + 1, r.out, ngen))

\* pedersen_hash without its two assertions on the lengths.
pedersen_hash_Unchecked(cs, bits, generators) ==
  IF cs.st # "ok" THEN Ret(cs, NoNum)
  ELSE
    Bind(LookupLoop(cs, bits, generators, 1, <<>>), LAMBDA l :
      IF l.cs.st # "ok" \/ Len(l.out) = 0 THEN Ret(l.cs, NoNum)
      ELSE Bind(AccumulateLoop(l.cs, l.out, 2, l.out[1], Len(generators)),
                LAMBDA r : Ret(r.cs, r.out[2])))

\* pedersen_hash
pedersen_hash(cs, bits, generators) ==
  IF cs.st # "ok" THEN Ret(cs, NoNum)
  ELSE IF Len(bits) # HashBits \/ Len(generators) # HashBits \div WindowBits
    THEN Ret([cs EXCEPT !.st = "panic"], NoNum)
  ELSE
    Bind(LookupLoop(cs, bits, generators, 1, <<>>), LAMBDA l :
      IF l.cs.st # "ok" THEN Ret(l.cs, NoNum)
      ELSE IF Len(l.out) # Len(generators)
        THEN Ret([l.cs EXCEPT !.st = "panic"], NoNum)
      ELSE Bind(AccumulateLoop(l.cs, l.out, 2, l.out[1], Len(generators)),
                LAMBDA r : Ret(r.cs, r.out[2])))

\* The hash outside the constraint system, as the tests compute it: from
\* Point::zero(), add_assign the point each window selects.
RECURSIVE NativeHash(_, _, _, _)
NativeHash(vals, generators, w, cur) ==
  IF w > Min((Len(vals) + WindowBits - 1) \div WindowBits, Len(generators))
    THEN cur
  ELSE LET idx == BitsValue(Chunk(vals, w), 1)
       IN  NativeHash(vals, generators, w + 1,
                      Point_add_assign(cur, Point(generators[w][1][idx + 1],
                                                  generators[w][2][idx + 1])))

-----------------------------------------------------------------------------
(* MiMC.                                                                   *)

\* The number of rounds (300 in the source).
MIMC_ROUNDS == 2

\* mimc: the permutation outside the constraint system.
RECURSIVE MimcLoop(_, _, _, _)
MimcLoop(xl, xr, constants, i) ==
  IF i > MIMC_ROUNDS THEN xl
  ELSE LET tmp1 == FAdd(xl, constants[i])
           tmp2 == FAdd(FMul(FMul(tmp1, tmp1), tmp1), xr)
       IN  MimcLoop(tmp2, xl, constants, i + 1)

mimc(xl, xr, constants) == MimcLoop(xl, xr, constants, 1)

\* Option::ok_or(Error::AssignmentMissing), as the closure of an allocation.
OkOr(o) == IF o.known THEN Ok(o.v) ELSE Err

\* The two allocations MiMCDemo::synthesize opens with.  The state of the
\* loop is the pair of variables and the pair of optional values.
\* The same with one variable allocated for both halves of the preimage.
MimcAllocInputs_Shared(cs, xl_value, xr_value) ==
  LET c1 == CsAlloc(cs, OkOr(xl_value))
  IN  Ret(c1, [xl |-> c1.n, xr |-> c1.n,
               xl_value |-> xl_value, xr_value |-> xr_value])

MimcAllocInputs(cs, xl_value, xr_value) ==
  LET c1 == CsAlloc(cs, OkOr(xl_value))
      c2 == CsAlloc(c1, OkOr(xr_value))
  IN  Ret(c2, [xl |-> c1.n, xr |-> c2.n,
               xl_value |-> xl_value, xr_value |-> xr_value])

\* The square without the round constant.
TmpValue_NoConstant(xl_value, c) ==
  IF xl_value.known THEN known(FMul(xl_value.v, xl_value.v))
  ELSE unknown("fr")

\* tmp_value = xl_value.map(|e| (e + c)^2)
TmpValue(xl_value, c) ==
  IF xl_value.known
    THEN known(FMul(FAdd(xl_value.v, c), FAdd(xl_value.v, c)))
  ELSE unknown("fr")

\* One round of MiMCDemo::synthesize, with the round constant c.  new_xl_value
\* is computed outside any closure and unwraps xr_value.
MimcRound(cs, st, c) ==
  LET tmp_value == TmpValue(st.xl_value, c)
      c1  == CsAlloc(cs, OkOr(tmp_value))
      tmp == c1.n
      xlc == LcAddC(LcAdd(LcZero, st.xl), c, One)
      c2  == CsEnforce(c1, xlc, xlc, LcAdd(LcZero, tmp))
      new_xl_value ==
        IF st.xl_value.known
          THEN known(FAdd(FMul(FAdd(st.xl_value.v, c), tmp_value.v),
                          st.xr_value.v))
        ELSE unknown("fr")
      c3  == CsAlloc(c2, OkOr(new_xl_value))
      new_xl == c3.n
      c4  == CsEnforce(c3, LcAdd(LcZero, tmp), xlc,
                       LcSub(LcAdd(LcZero, new_xl), st.xr))
  IN  IF c2.st = "ok" /\ st.xl_value.known /\ ~st.xr_value.known
        THEN Ret([c2 EXCEPT !.st = "panic"], st)
      ELSE Ret(c4, [xl |-> new_xl, xr |-> st.xl,
                    xl_value |-> new_xl_value, xr_value |-> st.xl_value])

-----------------------------------------------------------------------------
(* The circuits as a state machine, both modes side by side.               *)
(*   "lookup":   test_lookup's circuit: four bits, then point_lookup.      *)
(*   "pedersen": the circuits of test_pedersen and testy_more_pedersen:    *)
(*               HashBits bits, then DEPTH times pedersen_hash, the bits   *)
(*               rebuilt from the hash between two of them.                *)
(*   "mimc":     MiMCDemo.                                                 *)
(* inp.vals are the witness inputs drawn so far, last.op the last step and *)
(* last.i the turn of the loop it belongs to.                              *)

\* The hashes a chain makes (50 and 20 in the source).
DEPTH == 2

\* The seeds generator tables are drawn from.
MaxGen == 2

x_table == RandTable(inp.seed[1], inp.seed[2], TableLen)
y_table == RandTable(inp.seed[2] + 1, inp.seed[1], TableLen)
\* The tables of every seed, drawn once as the tests draw them before the
\* circuit is synthesized.
GeneratorTables == [s \in 0 .. MaxSeed + 1 |-> generate_constant_table(s)]
generators == GeneratorTables[inp.seed[1]]
constants == RandTable(inp.seed[1], inp.seed[2], MIMC_ROUNDS)

Step(op, i) == [NoOp EXCEPT !.op = op, !.i = i]

NoMimc == [xl |-> One, xr |-> One, xl_value |-> unknown("fr"),
           xr_value |-> unknown("fr")]

InputBits == IF circuit = "lookup" THEN WindowBits ELSE HashBits

\* The input bits (rng.gen() in the tests), as the binary digits of a word,
\* least significant first: every index of the table for a lookup, and
\* words spread over the range, with all zeros and all ones, for a hash.
MaxInput == 62

InputWords(c) ==
  IF c = "lookup" THEN 0 .. TableLen - 1
  ELSE IF c = "pedersen"
    THEN { (k * 677) % Pow2(HashBits) : k \in 0 .. MaxInput }
           \cup { Pow2(HashBits) - 1 }
  ELSE { 0 }

Init ==
  /\ circuit \in {"lookup", "pedersen", "mimc"}
  /\ pc = "alloc"
  /\ \E sd \in Seeds, w \in InputWords(circuit) :
       /\ circuit = "pedersen" => (sd[1] <= MaxGen /\ sd[2] = 0)
       /\ circuit = "mimc" => sd[1] = 1
       /\ inp = [seed |-> sd, word |-> w, vals |-> <<>>]
  /\ run = [m \in Modes |->
              [cs |-> NewCS(m), bits |-> <<>>, num |-> NoNum,
               pt |-> <<NoNum, NoNum>>, st |-> NoMimc]]
  /\ last = NoOp

\* bits.push(Bit::alloc(cs, b)?) for the next input bit.
AllocInputBit ==
  /\ circuit \in {"lookup", "pedersen"} /\ pc = "alloc"
  /\ Len(inp.vals) < InputBits
  /\ LET v == (inp.word \div Pow2(Len(inp.vals))) % 2 = 1
     IN  /\ run' = [m \in Modes |->
                      Bind(Bit_alloc(run[m].cs, Val(m, v, "bool")), LAMBDA r :
                           [run[m] EXCEPT !.cs = r.cs,
                                          !.bits = Append(@, r.out)])]
         /\ inp' = [inp EXCEPT !.vals = Append(@, v)]
  /\ last' = Step("alloc", 0)
  /\ UNCHANGED <<circuit, pc>>

\* let (x, y) = point_lookup(cs, self.x_table, self.y_table, &bits)?
Lookup ==
  /\ circuit = "lookup" /\ pc = "alloc" /\ Len(inp.vals) = InputBits
  /\ run' = [m \in Modes |->
               Bind(point_lookup(run[m].cs, x_table, y_table, run[m].bits),
                    LAMBDA r : [run[m] EXCEPT !.cs = r.cs, !.pt = r.out])]
  /\ pc' = "done"
  /\ last' = Step("lookup", 0)
  /\ UNCHANGED <<circuit, inp>>

\* let num = pedersen_hash(cs, &bits, self.generators, self.j)?
Hash ==
  /\ circuit = "pedersen"
  /\ \/ pc = "alloc" /\ Len(inp.vals) = InputBits
     \/ pc = "hash"
  /\ run' = [m \in Modes |->
               Bind(pedersen_hash(run[m].cs, run[m].bits, generators),
                    LAMBDA r : [run[m] EXCEPT !.cs = r.cs, !.num = r.out])]
  /\ last' = Step("hash", last.i + 1)
  /\ pc' = IF last.i + 1 = DEPTH THEN "done" ELSE "rebuild"
  /\ UNCHANGED <<circuit, inp>>

\* The bits of the next hash: num.unpack(cs)?, then the first NumBits input
\* bits allocated again, then Bit::one twice; both lengths are asserted.
RECURSIVE PushInputs(_, _, _, _)
PushInputs(cs, vals, i, bits) ==
  IF i > Len(vals) THEN Ret(cs, bits)
  ELSE Bind(Bit_alloc(cs, vals[i]), LAMBDA r :
            PushInputs(r.cs, vals, i + 1, Append(bits, r.out)))

RebuildBits(cs, num, vals) ==
  Bind(Num_unpack(cs, num), LAMBDA u :
    IF u.cs.st # "ok" THEN u
    ELSE IF Len(u.out) # NumBits THEN Ret([u.cs EXCEPT !.st = "panic"], u.out)
    ELSE Bind(PushInputs(u.cs, Truncate(vals, NumBits), 1, u.out), LAMBDA a :
         Bind(Bit_one(a.cs), LAMBDA o1 :
         Bind(Bit_one(o1.cs), LAMBDA o2 :
         Bind(Append(Append(a.out, o1.out), o2.out), LAMBDA bs :
           IF o2.cs.st = "ok" /\ Len(bs) # HashBits
             THEN Ret([o2.cs EXCEPT !.st = "panic"], bs)
           ELSE Ret(o2.cs, bs))))))

Rebuild ==
  /\ circuit = "pedersen" /\ pc = "rebuild"
  /\ run' = [m \in Modes |->
               Bind(RebuildBits(run[m].cs, run[m].num,
                                [i \in 1 .. Len(inp.vals) |->
                                   Val(m, inp.vals[i], "bool")]),
                    LAMBDA r : [run[m] EXCEPT !.cs = r.cs, !.bits = r.out])]
  /\ pc' = "hash"
  /\ last' = Step("rebuild", last.i)
  /\ UNCHANGED <<circuit, inp>>

\* The two input allocations of MiMCDemo::synthesize.
MimcStart ==
  /\ circuit = "mimc" /\ pc = "alloc"
  /\ \E xl, xr \in Fr :
       /\ run' = [m \in Modes |->
                    Bind(MimcAllocInputs(run[m].cs, Val(m, xl, "fr"),
                                         Val(m, xr, "fr")),
                         LAMBDA r : [run[m] EXCEPT !.cs = r.cs, !.st = r.out])]
       /\ inp' = [inp EXCEPT !.vals = <<xl, xr>>]
  /\ pc' = "round"
  /\ last' = Step("inputs", 0)
  /\ UNCHANGED circuit

\* One turn of the loop of MiMCDemo::synthesize.
MimcStep ==
  /\ circuit = "mimc" /\ pc = "round"
  /\ run' = [m \in Modes |->
               Bind(MimcRound(run[m].cs, run[m].st, constants[last.i + 1]),
                    LAMBDA r : [run[m] EXCEPT !.cs = r.cs, !.st = r.out])]
  /\ last' = Step("round", last.i + 1)
  /\ pc' = IF last.i + 1 = MIMC_ROUNDS THEN "done" ELSE "round"
  /\ UNCHANGED <<circuit, inp>>

Next == AllocInputBit \/ Lookup \/ Hash \/ Rebuild \/ MimcStart \/ MimcStep

Spec == Init /\ [][Next]_vars

-----------------------------------------------------------------------------
(* Properties of the circuits.                                             *)

\* The index the input bits select, the first bit the least significant.
SelectedIndex == BitsValue(inp.vals, 1)

\* C4: for every table and every assignment of the four selector bits,
\* point_lookup gives each result variable the witness table[idx], idx the
\* value of the bits least significant first; the witness satisfies the
\* constraints emitted; and with the bits held at their values every
\* satisfying assignment gives the result variables table[idx].
C4_LookupSelectsEntry ==
  (circuit = "lookup" /\ pc = "done") =>
    LET cs == run["proving"].cs
        pt == run["proving"].pt
        x  == x_table[SelectedIndex + 1]
        y  == y_table[SelectedIndex + 1]
    IN  /\ cs.st = "ok"
        /\ WitKnown(cs)
        /\ pt[1].value = known(x) /\ cs.wit[pt[1].var] = known(x)
        /\ pt[2].value = known(y) /\ cs.wit[pt[2].var] = known(y)
        /\ Satisfies(cs.ops, WitVals(cs))
        /\ \A m \in Modes :
             LET S == Solutions(run[m].cs.ops, FixBits(run[m].bits, inp.vals))
             IN  /\ S # {}
                 /\ \A a \in S : a[pt[1].var] = x /\ a[pt[2].var] = y

\* A lookup has been made at an index with three of its four bits set, in
\* a table whose entries differ.
C4_Witness ==
  /\ circuit = "lookup" /\ pc = "done" /\ last.op = "lookup"
  /\ SelectedIndex = 13
  /\ x_table[14] # x_table[1]
  /\ run["proving"].pt[1].value.known
  /\ run["proving"].cs.n = WindowBits + 6

\* The booleans the bits of a run stand for.
BitVals(bits) == [i \in 1 .. Len(bits) |-> bits[i].val.v]

\* C6: for any fully known input the field element pedersen_hash returns has
\* as value and as witness the y-coordinate of the point reached natively
\* from Point::zero() by add_assign of the point each window selects, and
\* the witness satisfies every constraint emitted.
C6_HashMatchesNative ==
  (circuit = "pedersen" /\ last.op = "hash") =>
    LET cs     == run["proving"].cs
        num    == run["proving"].num
        native == NativeHash(BitVals(run["proving"].bits), generators, 1,
                             Point_zero)
    IN  /\ cs.st = "ok"
        /\ WitKnown(cs)
        /\ native.ok
        /\ num.value = known(native.y)
        /\ cs.wit[num.var] = known(native.y)
        /\ Satisfies(cs.ops, WitVals(cs))

\* A hash has been made of an input with ones and zeros, and its value is
\* not the y-coordinate of Point::zero().
C6_Witness ==
  /\ circuit = "pedersen" /\ last.op = "hash" /\ last.i = 1
  /\ inp.word \notin {0, Pow2(HashBits) - 1}
  /\ run["proving"].num.value.known
  /\ run["proving"].num.value.v # Point_zero.y

\* The constraints of x3 and of y3 among ops: those whose first factor is
\* 1 + d tau, and 1 - d tau.
IsX3Constraint(op) ==
  /\ op.k = "enforce" /\ Len(op.a) = 2
  /\ op.a[1] = <<1, One>> /\ op.a[2][1] = JubJubD

IsY3Constraint(op) ==
  /\ op.k = "enforce" /\ Len(op.a) = 2
  /\ op.a[1] = <<1, One>> /\ op.a[2][1] = FNeg(JubJubD)

X3Constraints(ops) == Cardinality({ i \in 1 .. Len(ops) : IsX3Constraint(ops[i]) })
Y3Constraints(ops) == Cardinality({ i \in 1 .. Len(ops) : IsY3Constraint(ops[i]) })

\* The variables a call of pedersen_hash allocates were the x3 of its last
\* accumulation step left out: six for each window lookup, five products
\* and y3 for each step, x3 for each step but the last.
HashAllocsWithoutLastX3 == 6 * HashWindows + 7 * (HashWindows - 1) - 1

\* C7: a call of pedersen_hash makes one x3 allocation and one x3 constraint
\* fewer than it makes accumulation steps.
C7_LastX3NotComputed ==
  (circuit = "pedersen" /\ last.op = "hash") =>
    \A m \in Modes :
      /\ X3Constraints(run[m].cs.ops) = Y3Constraints(run[m].cs.ops) - last.i
      /\ last.i = 1 => run[m].cs.n = HashBits + HashAllocsWithoutLastX3

\* What pedersen_hash does: every accumulation step, the last one too,
\* allocates and constrains x3.
X3ComputedAtEveryStep ==
  (circuit = "pedersen" /\ last.op = "hash") =>
    \A m \in Modes :
      /\ Y3Constraints(run[m].cs.ops) = last.i * (HashWindows - 1)
      /\ X3Constraints(run[m].cs.ops) = Y3Constraints(run[m].cs.ops)
      /\ last.i = 1 => run[m].cs.n = HashBits + HashAllocsWithoutLastX3 + 1

\* C8: in each circuit, synthesis with every witness unknown succeeds, as
\* does synthesis with the witness known, and at every step the two have
\* made the same allocations and the same constraints, in the same order.
C8_SameTopology ==
  /\ \A m \in Modes : run[m].cs.st = "ok"
  /\ run["paramgen"].cs.ops = run["proving"].cs.ops
  /\ run["paramgen"].cs.n = run["proving"].cs.n
  /\ \A i \in 1 .. run["paramgen"].cs.n : ~run["paramgen"].cs.wit[i].known
  /\ WitKnown(run["proving"].cs)

\* The last hash of a chain has been made: the bits of the hash before it
\* went through Num::unpack in both modes.
C8_Witness ==
  /\ circuit = "pedersen" /\ pc = "done" /\ last.i = DEPTH
  /\ Len(run["paramgen"].cs.ops) > 2 * HashBits
  /\ run["proving"].num.value.known /\ ~run["paramgen"].num.value.known

\* The constraints among ops.
Constraints(ops) == { i \in 1 .. Len(ops) : ops[i].k = "enforce" }

\* C11: for every known pair (xl, xr) and every sequence of round constants
\* drawn, the final xl of MiMCDemo::synthesize has as value and as witness
\* what mimc(xl, xr, constants) returns, and after every round the witness
\* satisfies the constraints emitted so far.
C11_MimcMatchesNative ==
  circuit = "mimc" =>
    LET cs == run["proving"].cs
        st == run["proving"].st
    IN  /\ cs.st = "ok"
        /\ WitKnown(cs)
        /\ Satisfies(cs.ops, WitVals(cs))
        /\ pc = "done" =>
             LET image == mimc(inp.vals[1], inp.vals[2], constants)
             IN  /\ st.xl_value = known(image)
                 /\ cs.wit[st.xl] = known(image)

\* The last round has been made on a preimage with two different halves,
\* neither zero.
C11_Witness ==
  /\ circuit = "mimc" /\ pc = "done" /\ last.op = "round"
  /\ last.i = MIMC_ROUNDS
  /\ inp.vals[1] # inp.vals[2] /\ inp.vals[1] # 0 /\ inp.vals[2] # 0
  /\ run["proving"].st.xl_value.known
  /\ run["proving"].st.xl_value.v # inp.vals[1]

\* C12: in both modes MiMCDemo::synthesize allocates two variables, then
\* two variables and two constraints in every round: 2 * MIMC_ROUNDS
\* constraints and 2 + 2 * MIMC_ROUNDS variables when it returns.
C12_MimcCounts ==
  (circuit = "mimc" /\ pc # "alloc") =>
    \A m \in Modes :
      /\ run[m].cs.n = 2 + 2 * last.i
      /\ Cardinality(Constraints(run[m].cs.ops)) = 2 * last.i
      /\ Len(run[m].cs.ops) = 2 + 4 * last.i
      /\ run[m].st.xl # run[m].st.xr
      /\ pc = "done" => last.i = MIMC_ROUNDS

\* Synthesis has returned in the mode that knows no witness.
C12_Witness ==
  /\ circuit = "mimc" /\ pc = "done"
  /\ run["paramgen"].cs.st = "ok"
  /\ run["paramgen"].cs.n = 2 + 2 * MIMC_ROUNDS
  /\ ~run["paramgen"].st.xl_value.known

-----------------------------------------------------------------------------
(* Point::rand as a state machine: a y is drawn until (y^2 - 1)/(d y^2 + 1) *)
(* has a root x; the candidate (x, y) is asserted to be on the curve,      *)
(* doubled three times and returned.  run.asserted is the point the        *)
(* assert! was made on, inp the candidate.                                 *)

NoPoint == [ok |-> FALSE, x |-> 0, y |-> 0]

InitRand ==
  /\ circuit = "rand"
  /\ pc = "draw"
  /\ run = [tmp |-> NoPoint, asserted |-> NoPoint, doubles |-> 0,
            ret |-> NoPoint]
  /\ inp = NoPoint
  /\ last = NoOp

\* let y = Fr::rand(rng); ...; if let Some(x) = n.sqrt() { tmp = Point {x, y} }
\* sqrt gives one of the roots; with no root the loop draws again.
RandDraw ==
  /\ circuit = "rand" /\ pc = "draw"
  /\ \E y \in Fr :
       LET y2 == FMul(y, y)
           d  == FAdd(FMul(y2, JubJubD), 1)
       IN  IF ~HasInverse(d)
             THEN pc' = "panic" /\ UNCHANGED <<run, inp>>
           ELSE LET n == FMul(FSub(y2, 1), FInv(d))
                IN  \/ \E x \in Fr :
                          /\ FMul(x, x) = n
                          /\ run' = [run EXCEPT !.tmp = Point(x, y)]
                          /\ inp' = Point(x, y)
                          /\ pc' = "assert"
                    \/ /\ \A x \in Fr : FMul(x, x) # n
                       /\ UNCHANGED <<run, inp, pc>>
  /\ UNCHANGED <<circuit, last>>

\* assert!(tmp.is_on_curve(j))
RandAssert ==
  /\ circuit = "rand" /\ pc = "assert"
  /\ IF is_on_curve(run.tmp)
       THEN run' = [run EXCEPT !.asserted = run.tmp] /\ pc' = "double"
     ELSE pc' = "panic" /\ UNCHANGED run
  /\ UNCHANGED <<circuit, inp, last>>

\* tmp.double(j), three times
RandDouble ==
  /\ circuit = "rand" /\ pc = "double" /\ run.doubles < 3
  /\ run' = [run EXCEPT !.tmp = Point_double(run.tmp), !.doubles = @ + 1]
  /\ UNCHANGED <<circuit, pc, inp, last>>

\* return tmp
RandReturn ==
  /\ circuit = "rand" /\ pc = "double" /\ run.doubles = 3
  /\ run' = [run EXCEPT !.ret = run.tmp]
  /\ pc' = "returned"
  /\ UNCHANGED <<circuit, inp, last>>

NextRand == RandDraw \/ RandAssert \/ RandDouble \/ RandReturn

SpecRand == InitRand /\ [][NextRand]_vars

\* Every entry of every generator table is a point of the curve.
TablesOnCurve ==
  \A s \in DOMAIN GeneratorTables :
    \A w \in 1 .. HashWindows : \A i \in 1 .. TableLen :
      is_on_curve(Point(GeneratorTables[s][w][1][i],
                        GeneratorTables[s][w][2][i]))

\* C13: every point Point::rand returns, and every entry of every table of
\* generate_constant_table, is on the curve; the point returned is the
\* candidate doubled three times; and the assert! of curve membership was
\* made on the point that is returned.
C13_RandAssertsReturned ==
  /\ TablesOnCurve
  /\ (circuit = "rand" /\ pc = "returned") =>
       /\ run.ret.ok /\ is_on_curve(run.ret)
       /\ run.ret = Point_double(Point_double(Point_double(inp)))
       /\ run.asserted = run.ret

\* C13 as amended: every point returned and every table entry is on the
\* curve; the point returned is the candidate doubled three times; the
\* assert! was made on the candidate, before the doublings.
C13_RandOnCurve ==
  /\ TablesOnCurve
  /\ circuit = "rand" => pc # "panic"
  /\ (circuit = "rand" /\ pc = "returned") =>
       /\ run.ret.ok /\ is_on_curve(run.ret)
       /\ run.ret = Point_double(Point_double(Point_double(inp)))
       /\ run.ret = Point_rand(inp.x, inp.y)
       /\ run.ret \in RandPoints
       /\ run.asserted = inp

\* A point has been returned that is neither its candidate nor the neutral
\* element.
C13_Witness ==
  /\ circuit = "rand" /\ pc = "returned"
  /\ run.ret # inp /\ run.ret # Point_zero
  /\ run.doubles = 3

\* C16: in a Pedersen chain neither mode ever halts on a length assertion,
\* and after every rebuilding of the bits, in both modes, there are exactly
\* HashBits of them: the NumBits bits of the unpacked hash, then the first
\* NumBits input bits on variables allocated anew, each with its booleanity
\* constraint, then the constant-one wire twice, for which nothing was
\* allocated or emitted (the last variable and the last constraint of the
\* system are those of the last input bit).
C16_ChainKeepsLengths ==
  circuit = "pedersen" =>
    \A m \in Modes :
      /\ run[m].cs.st = "ok"
      /\ last.op = "rebuild" =>
           LET b  == run[m].bits
               cs == run[m].cs
           IN  /\ Len(b) = HashBits
               /\ Len(b) = 2 * NumBits + 2
               /\ Cardinality({ b[i].var : i \in 1 .. 2 * NumBits } \ {One})
                    = 2 * NumBits
               /\ \A i \in 1 .. NumBits :
                    /\ b[NumBits + i].val = Val(m, inp.vals[i], "bool")
                    /\ b[NumBits + i].var = cs.n - NumBits + i
                    /\ cs.ops[Len(cs.ops) - 2 * (NumBits - i)]
                         = BooleanConstraint(b[NumBits + i].var)
                    /\ cs.ops[Len(cs.ops) - 2 * (NumBits - i) - 1] = AllocOp
               /\ b[HashBits - 1] = Bit(One, known(TRUE))
               /\ b[HashBits] = Bit(One, known(TRUE))

\* The bits have been rebuilt for the last hash of the chain, from an input
\* whose first bit is set.
C16_Witness ==
  /\ circuit = "pedersen" /\ last.op = "rebuild" /\ last.i = DEPTH - 1
  /\ inp.vals[1]
  /\ Len(run["paramgen"].bits) = HashBits
  /\ run["proving"].bits[NumBits + 1].val = known(TRUE)

-----------------------------------------------------------------------------
(* The length contracts as a state machine: pedersen_hash, point_lookup    *)
(* and coordinate_lookup called, in both modes, on bit vectors, generator  *)
(* lists and tables of the required lengths and of lengths near them.      *)
(* inp.bad is the window whose table has lists of inp.xlen and inp.ylen    *)
(* entries (0: none).                                                      *)

\* How far from the required length the lengths tried are.
LenSlack == 1

Near(n) == { k \in (n - LenSlack) .. (n + LenSlack) : k >= 0 }

\* A list of len entries made of the entries of t.
ResizeTable(t, len) == [i \in 1 .. len |-> t[((i - 1) % Len(t)) + 1]]

\* ngen generator tables; the lists of table `bad` have xlen and ylen
\* entries.
GeneratorsOf(ngen, bad, xlen, ylen) ==
  [w \in 1 .. ngen |->
     LET g == GeneratorTables[1][((w - 1) % HashWindows) + 1]
     IN  IF w = bad THEN <<ResizeTable(g[1], xlen), ResizeTable(g[2], ylen)>>
         ELSE g]

InitLengths ==
  /\ circuit = "lengths"
  /\ pc = "alloc"
  /\ \E call \in {"hash", "point", "coord"} :
     \E nbits \in Near(IF call = "hash" THEN HashBits ELSE WindowBits),
        ngen \in Near(HashWindows), xlen, ylen \in Near(TableLen) :
     \E bad \in 0 .. ngen :
       /\ call # "hash" => (ngen = HashWindows /\ bad = 0)
       /\ call = "coord" => ylen = TableLen
       /\ (call = "hash" /\ bad = 0) => (xlen = TableLen /\ ylen = TableLen)
       /\ (call = "hash" /\ bad # 0) =>
            (xlen # TableLen \/ ylen # TableLen)
       /\ inp = [call |-> call, nbits |-> nbits, ngen |-> ngen, bad |-> bad,
                 xlen |-> xlen, ylen |-> ylen, vals |-> <<>>]
  /\ run = [m \in Modes |-> [cs |-> NewCS(m), bits |-> <<>>]]
  /\ last = NoOp

\* bits.push(Bit::alloc(cs, b)?)
LenAllocBit ==
  /\ circuit = "lengths" /\ pc = "alloc" /\ Len(inp.vals) < inp.nbits
  /\ LET v == Len(inp.vals) % 3 = 0
     IN  /\ run' = [m \in Modes |->
                      Bind(Bit_alloc(run[m].cs, Val(m, v, "bool")), LAMBDA r :
                           [run[m] EXCEPT !.cs = r.cs,
                                          !.bits = Append(@, r.out)])]
         /\ inp' = [inp EXCEPT !.vals = Append(@, v)]
  /\ UNCHANGED <<circuit, pc, last>>

\* pedersen_hash(cs, &bits, generators, j)
LenCallHash ==
  /\ circuit = "lengths" /\ pc = "alloc" /\ Len(inp.vals) = inp.nbits
  /\ inp.call = "hash"
  /\ run' = [m \in Modes |->
               [run[m] EXCEPT !.cs =
                  pedersen_hash(run[m].cs, run[m].bits,
                                GeneratorsOf(inp.ngen, inp.bad, inp.xlen,
                                             inp.ylen)).cs]]
  /\ pc' = "done"
  /\ UNCHANGED <<circuit, inp, last>>

\* point_lookup(cs, x_table, y_table, &bits)
LenCallPoint ==
  /\ circuit = "lengths" /\ pc = "alloc" /\ Len(inp.vals) = inp.nbits
  /\ inp.call = "point"
  /\ run' = [m \in Modes |->
               [run[m] EXCEPT !.cs =
                  point_lookup(run[m].cs,
                               ResizeTable(GeneratorTables[1][1][1], inp.xlen),
                               ResizeTable(GeneratorTables[1][1][2], inp.ylen),
                               run[m].bits).cs]]
  /\ pc' = "done"
  /\ UNCHANGED <<circuit, inp, last>>

\* coordinate_lookup(cs, table, &bits, a, b, c, d), the four AND terms any
\* bits.
LenCallCoord ==
  /\ circuit = "lengths" /\ pc = "alloc" /\ Len(inp.vals) = inp.nbits
  /\ inp.call = "coord"
  /\ run' = [m \in Modes |->
               [run[m] EXCEPT !.cs =
                  coordinate_lookup(run[m].cs,
                                    ResizeTable(GeneratorTables[1][1][1],
                                                inp.xlen),
                                    run[m].bits, Bit_one(run[m].cs).out,
                                    Bit_one(run[m].cs).out,
                                    Bit_one(run[m].cs).out,
                                    Bit_one(run[m].cs).out).cs]]
  /\ pc' = "done"
  /\ UNCHANGED <<circuit, inp, last>>

NextLengths == LenAllocBit \/ LenCallHash \/ LenCallPoint \/ LenCallCoord

SpecLengths == InitLengths /\ [][NextLengths]_vars

\* The call has halted, having allocated k variables and emitted nothing
\* but the constraints that go with them.
HaltedAfter(cs, k) ==
  /\ cs.st = "panic"
  /\ cs.n = inp.nbits + k
  /\ Len(cs.ops) = 2 * (inp.nbits + k)

\* C14: in both modes a call that breaks a length contract halts, and
\* returns neither Ok nor Err: pedersen_hash with a wrong number of bits or
\* of tables before it allocates or constrains anything; with a table whose
\* lists are not of TableLen entries at the lookup of that table, the
\* lookups before it made (six variables each); point_lookup and
\* coordinate_lookup with other than WindowBits bits or a table not of
\* TableLen entries before they allocate anything.  A call that keeps the
\* contracts returns Ok.
C14_LengthViolationsHalt ==
  (circuit = "lengths" /\ pc = "done") =>
    \A m \in Modes :
      IF inp.call = "hash"
        THEN IF inp.nbits # HashBits \/ inp.ngen # HashWindows
               THEN HaltedAfter(run[m].cs, 0)
             ELSE IF inp.bad # 0
               THEN HaltedAfter(run[m].cs, 6 * (inp.bad - 1))
             ELSE run[m].cs.st = "ok"
      ELSE IF inp.nbits # WindowBits \/ inp.xlen # TableLen
                \/ inp.ylen # TableLen
        THEN HaltedAfter(run[m].cs, 0)
      ELSE run[m].cs.st = "ok"

\* pedersen_hash has halted at the second table, whose lists are too short
\* or too long, the bits and the number of tables being as required.
C14_Witness ==
  /\ circuit = "lengths" /\ pc = "done" /\ inp.call = "hash"
  /\ inp.nbits = HashBits /\ inp.ngen = HashWindows /\ inp.bad = 2
  /\ run["paramgen"].cs.st = "panic"
  /\ run["paramgen"].cs.n = HashBits + 6

-----------------------------------------------------------------------------
(* Assignment<T> as a state machine: a value of T = Fr or T = bool is      *)
(* wrapped by known or left out by unknown, and then read by get.          *)

InitAssignment ==
  /\ circuit = "assignment"
  /\ pc = "new"
  /\ \E T \in {"fr", "bool"} :
     \E v \in IF T = "bool" THEN BOOLEAN ELSE Fr :
       /\ inp = [T |-> T, v |-> v]
       /\ run = [how |-> "none", a |-> unknown(T),
                 res |-> [ok |-> FALSE, v |-> unknown(T).v]]
  /\ last = NoOp

\* Assignment::known(v)
AssignKnown ==
  /\ circuit = "assignment" /\ pc = "new"
  /\ run' = [run EXCEPT !.how = "known", !.a = known(inp.v)]
  /\ pc' = "made"
  /\ UNCHANGED <<circuit, inp, last>>

\* Assignment::unknown()
AssignUnknown ==
  /\ circuit = "assignment" /\ pc = "new"
  /\ run' = [run EXCEPT !.how = "unknown", !.a = unknown(inp.T)]
  /\ pc' = "made"
  /\ UNCHANGED <<circuit, inp, last>>

\* self.get(), self borrowed immutably.
AssignGet ==
  /\ circuit = "assignment" /\ pc \in {"made", "got"}
  /\ run' = [run EXCEPT !.res = get(run.a)]
  /\ pc' = "got"
  /\ UNCHANGED <<circuit, inp, last>>

NextAssignment == AssignKnown \/ AssignUnknown \/ AssignGet

SpecAssignment == InitAssignment /\ [][NextAssignment]_vars

\* C15: known(v) makes an assignment that is Known and holds v, unknown()
\* one that is Unknown; get answers Err exactly for the Unknown one and Ok
\* with v for Known(v); and the assignment after get is the one that was
\* constructed.
C15_GetFailsExactlyOnUnknown ==
  (circuit = "assignment" /\ pc = "got") =>
    /\ run.how = "known" => (run.a.known /\ run.a.v = inp.v)
    /\ run.how = "unknown" => ~run.a.known
    /\ run.res.ok <=> run.how = "known"
    /\ run.res.ok => run.res.v = inp.v

\* get has answered Err for an assignment made by unknown().
C15_Witness ==
  /\ circuit = "assignment" /\ pc = "got"
  /\ run.how = "unknown" /\ ~run.res.ok

-----------------------------------------------------------------------------
(* MiMCDemo with each half of the preimage present or absent, synthesized  *)
(* against a constraint system that invokes the allocation closures        *)
(* ("proving") and against one that does not ("paramgen").                 *)

\* An Option<Fr>: Some(v) or None.
Opt(has, v) == IF has THEN known(v) ELSE unknown("fr")

InitMimcDemo ==
  /\ circuit = "mimcdemo"
  /\ pc = "alloc"
  /\ \E sd \in Seeds :
       /\ sd[1] = 1
       /\ inp = [seed |-> sd, word |-> 0, vals |-> <<>>]
  /\ run = [m \in Modes |->
              [cs |-> NewCS(m), bits |-> <<>>, num |-> NoNum,
               pt |-> <<NoNum, NoNum>>, st |-> NoMimc]]
  /\ last = NoOp

\* The two input allocations, from self.xl and self.xr.
MimcDemoStart ==
  /\ circuit = "mimcdemo" /\ pc = "alloc"
  /\ \E hl, hr \in BOOLEAN :
     \E xl \in IF hl THEN Fr ELSE {0}, xr \in IF hr THEN Fr ELSE {0} :
       /\ run' = [m \in Modes |->
                    Bind(MimcAllocInputs(run[m].cs, Opt(hl, xl), Opt(hr, xr)),
                         LAMBDA r : [run[m] EXCEPT !.cs = r.cs, !.st = r.out])]
       /\ inp' = [inp EXCEPT !.vals = <<Opt(hl, xl), Opt(hr, xr)>>]
  /\ pc' = "round"
  /\ last' = Step("inputs", 0)
  /\ UNCHANGED circuit

\* One turn of the loop.
MimcDemoStep ==
  /\ circuit = "mimcdemo" /\ pc = "round"
  /\ run' = [m \in Modes |->
               Bind(MimcRound(run[m].cs, run[m].st, constants[last.i + 1]),
                    LAMBDA r : [run[m] EXCEPT !.cs = r.cs, !.st = r.out])]
  /\ last' = Step("round", last.i + 1)
  /\ pc' = IF last.i + 1 = MIMC_ROUNDS THEN "done" ELSE "round"
  /\ UNCHANGED <<circuit, inp>>

NextMimcDemo == MimcDemoStart \/ MimcDemoStep

SpecMimcDemo == InitMimcDemo /\ [][NextMimcDemo]_vars

\* C20: whichever of xl and xr are present, and whether or not the
\* constraint system invokes the allocation closures, the synthesis never
\* halts the program: it goes on or has failed with AssignmentMissing.
C20_MissingWitnessNeverHalts ==
  circuit = "mimcdemo" => \A m \in Modes : run[m].cs.st \in {"ok", "err"}

\* What the synthesis does: it halts exactly in the first round against a
\* constraint system that does not invoke closures, xl present and xr
\* absent; it fails with AssignmentMissing exactly against one that does,
\* an input absent.
MimcDemoOutcome ==
  (circuit = "mimcdemo" /\ pc # "alloc") =>
    /\ run["paramgen"].cs.st =
         IF last.i >= 1 /\ inp.vals[1].known /\ ~inp.vals[2].known
           THEN "panic" ELSE "ok"
    /\ run["proving"].cs.st =
         IF inp.vals[1].known /\ inp.vals[2].known THEN "ok" ELSE "err"

-----------------------------------------------------------------------------
(* The public inputs.  Circuit::synthesize returns an input map, whose own *)
(* synthesize is then run against the same constraint system and is the    *)
(* only place where a public input can be allocated: alloc_input belongs   *)
(* to PublicConstraintSystem, which Circuit::synthesize is not given.      *)
(* The circuits are test_lookup's, whose map exposes the point looked up,  *)
(* and MiMCDemo.  Public and private variables share one numbering here.   *)

InputOp == [k |-> "input", a |-> <<>>, b |-> <<>>, c |-> <<>>]

\* PublicConstraintSystem::alloc_input(f)
CsAllocInput(cs, clo) ==
  IF cs.st # "ok" THEN cs
  ELSE IF cs.mode = "paramgen"
    THEN [cs EXCEPT !.n = @ + 1, !.wit = Append(@, unknown("fr")),
                    !.ops = Append(@, InputOp)]
  ELSE IF clo.res = "ok"
    THEN [cs EXCEPT !.n = @ + 1, !.wit = Append(@, known(clo.v)),
                    !.ops = Append(@, InputOp)]
  ELSE [cs EXCEPT !.st = clo.res]

\* MyLookupCircuitInput::synthesize of test_lookup: x, then y, then the two
\* constraints.
LookupInputs(cs, x, y) ==
  Bind(CsAllocInput(cs, OkOr(x.value)), LAMBDA c1 :
  Bind(CsAllocInput(c1, OkOr(y.value)), LAMBDA c2 :
       CsEnforce(CsEnforce(c2, LcAdd(LcZero, x.var), LcAdd(LcZero, One),
                           LcAdd(LcZero, c1.n)),
                 LcAdd(LcZero, y.var), LcAdd(LcZero, One),
                 LcAdd(LcZero, c2.n))))

\* MiMCDemoCircuitInput::synthesize: Ok(()), the constraint system untouched.
MimcInputs(cs) == cs

InitInputs == Init /\ circuit \in {"lookup", "mimc"}

LookupInputMap ==
  /\ circuit = "lookup" /\ pc = "done"
  /\ run' = [m \in Modes |->
               [run[m] EXCEPT !.cs = LookupInputs(@, run[m].pt[1],
                                                  run[m].pt[2])]]
  /\ pc' = "exposed"
  /\ last' = Step("inputs", 0)
  /\ UNCHANGED <<circuit, inp>>

MimcInputMap ==
  /\ circuit = "mimc" /\ pc = "done"
  /\ run' = [m \in Modes |-> [run[m] EXCEPT !.cs = MimcInputs(@)]]
  /\ pc' = "exposed"
  /\ last' = Step("inputs", MIMC_ROUNDS)
  /\ UNCHANGED <<circuit, inp>>

NextInputs ==
  \/ AllocInputBit \/ Lookup \/ LookupInputMap
  \/ MimcStart \/ MimcStep \/ MimcInputMap

SpecInputs == InitInputs /\ [][NextInputs]_vars

\* The variable the k-th operation allocated.
VarOfOp(ops, k) ==
  Cardinality({ j \in 1 .. k : ops[j].k \in {"alloc", "input"} })

PublicVars(ops) ==
  { VarOfOp(ops, k) : k \in { j \in 1 .. Len(ops) : ops[j].k = "input" } }

LcVars(lc) == { lc[i][2] : i \in 1 .. Len(lc) }

\* Variable v is a public input, or some constraint names it together with
\* a public input.
Exposed(ops, v) ==
  \/ v \in PublicVars(ops)
  \/ \E k \in 1 .. Len(ops) :
       /\ ops[k].k = "enforce"
       /\ v \in LcVars(ops[k].a) \cup LcVars(ops[k].b) \cup LcVars(ops[k].c)
       /\ (LcVars(ops[k].a) \cup LcVars(ops[k].b) \cup LcVars(ops[k].c))
            \cap PublicVars(ops) # {}

\* C21: once MiMCDemo and its input map are synthesized, in both modes, the
\* image (the last xl) is a public input of the constraint system, or is
\* tied to one, and the new_xl of the earlier rounds are private variables.
C21_ImageIsPublicInput ==
  (circuit = "mimc" /\ pc = "exposed") =>
    \A m \in Modes :
      /\ Exposed(run[m].cs.ops, run[m].st.xl)
      /\ \A v \in 1 .. run[m].cs.n :
           v # run[m].st.xl => v \notin PublicVars(run[m].cs.ops)

\* What the code does: MiMCDemo has no public input at all, the image is a
\* private variable like every other.
MimcExposesNothing ==
  circuit = "mimc" =>
    \A m \in Modes :
      /\ run[m].cs.st = "ok"
      /\ PublicVars(run[m].cs.ops) = {}
      /\ pc = "exposed" =>
           /\ run[m].st.xl = run[m].cs.n
           /\ run[m].cs.n = 2 + 2 * MIMC_ROUNDS
           /\ ~Exposed(run[m].cs.ops, run[m].st.xl)

\* By contrast the input map of test_lookup does expose the point.
LookupExposesPoint ==
  (circuit = "lookup" /\ pc = "exposed") =>
    \A m \in Modes :
      /\ Cardinality(PublicVars(run[m].cs.ops)) = 2
      /\ Exposed(run[m].cs.ops, run[m].pt[1].var)
      /\ Exposed(run[m].cs.ops, run[m].pt[2].var)

-----------------------------------------------------------------------------
(* The loop of assert_less_than_r turn by turn, for every modulus of       *)
(* NumBits bits (Fr::char() is a parameter of the engine): inp.rb are the  *)
(* modulus bits, least significant first, inp.vals the input bits.         *)

InitBorrow ==
  /\ circuit = "borrow"
  /\ pc = "alloc"
  /\ \E rb \in [1 .. NumBits -> BOOLEAN] : inp = [rb |-> rb, vals |-> <<>>]
  /\ run = [m \in Modes |->
              [cs |-> NewCS(m), bits |-> <<>>, carry |-> Constant(FALSE)]]
  /\ last = NoOp

\* An input bit: Bit::alloc(cs, v)?
BorrowAllocBit ==
  /\ circuit = "borrow" /\ pc = "alloc" /\ Len(inp.vals) < NumBits
  /\ \E v \in BOOLEAN :
       /\ run' = [m \in Modes |->
                    Bind(Bit_alloc(run[m].cs, Val(m, v, "bool")), LAMBDA r :
                         [run[m] EXCEPT !.cs = r.cs,
                                        !.bits = Append(@, r.out)])]
       /\ inp' = [inp EXCEPT !.vals = Append(@, v)]
  /\ UNCHANGED <<circuit, pc, last>>

\* One turn of the loop: carry = t4.
BorrowTurn ==
  /\ circuit = "borrow" /\ Len(inp.vals) = NumBits
  /\ pc \in {"alloc", "loop"} /\ last.i < NumBits
  /\ run' = [m \in Modes |->
               Bind(BorrowStep(run[m].cs, Constant(inp.rb[last.i + 1]),
                               run[m].bits[last.i + 1], run[m].carry),
                    LAMBDA r : [run[m] EXCEPT !.cs = r.cs, !.carry = r.out])]
  /\ last' = Step("turn", last.i + 1)
  /\ pc' = "loop"
  /\ UNCHANGED <<circuit, inp>>

\* carry.assert_is_false(cs)
BorrowAssert ==
  /\ circuit = "borrow" /\ pc = "loop" /\ last.i = NumBits
  /\ run' = [m \in Modes |->
               [run[m] EXCEPT !.cs = FunBit_assert_is_false(@, run[m].carry)]]
  /\ last' = Step("assert", last.i)
  /\ pc' = "done"
  /\ UNCHANGED <<circuit, inp>>

NextBorrow == BorrowAllocBit \/ BorrowTurn \/ BorrowAssert

SpecBorrow == InitBorrow /\ [][NextBorrow]_vars

\* C22: for every modulus and every vector of allocated input bits, in both
\* modes, the borrow is after every turn of the loop Constant(false) or a
\* variable (plain or negated), never Constant(true), and the range check
\* neither halts the program nor fails.
C22_BorrowNeverConstantTrue ==
  circuit = "borrow" =>
    \A m \in Modes :
      /\ ~(run[m].carry.tag = "Constant" /\ run[m].carry.b)
      /\ run[m].carry.tag \in {"Constant", "Is", "Not"}
      /\ run[m].cs.st = "ok"

\* The check has been made for the modulus of the model, on bits whose
\* value is above it, the borrow being a variable that the witness sets.
C22_Witness ==
  /\ circuit = "borrow" /\ pc = "done"
  /\ inp.rb = Digits(FrChar, NumBits)
  /\ BitsValue(inp.vals, 1) > FrChar
  /\ run["proving"].carry.tag # "Constant"
  /\ Logical(run["proving"].carry)
  /\ run["paramgen"].cs.st = "ok"

\* Num::unpack, which runs the range check with the modulus of the field,
\* never halts.
UnpackNeverHalts ==
  circuit \in {"unpack", "range"} =>
    \A m \in Modes : run[m].cs.st = "ok"

=============================================================================
